---- MODULE Spec2Model ----
(***************************************************************************)
(* A model of the workbench controller (src/app.rs), its record store      *)
(* (src/db.rs), the terminal-multiplexer bridge (src/tmux.rs), the AI fill *)
(* worker (src/ai.rs), the main loop (src/main.rs) and the branch names of *)
(* src/git.rs (variable git: the call of sanitize_branch_name).            *)
(*                                                                         *)
(* Conventions.                                                            *)
(*  - A Rust String is a sequence of one-character strings; Option<T> is a *)
(*    sequence of length at most one (None == <<>>, Some(x) == <<x>>).     *)
(*  - A tmux session name is a tuple of its dash-separated parts:          *)
(*    "workbench-1-2" is <<"workbench", 1, 2>>, the timestamp-suffixed     *)
(*    "workbench-1-2-7" is <<"workbench", 1, 2, 7>>.                       *)
(*  - The handlers of App are operators from a world record                *)
(*    [app, db, tmux, workers, chan, ret] to a world record, composed in   *)
(*    the order the code calls them; the actions apply them to the state.  *)
(*  - The tmux binary is taken by its interface: has-session, kill-session *)
(*    and capture-pane act on the exactly named session, kill-session      *)
(*    succeeds on a live session.                                          *)
(***************************************************************************)
EXTENDS Integers, Sequences, FiniteSets, TLC

VARIABLES app, db, tmux, workers, chan, main, git

vars == <<app, db, tmux, workers, chan, main, git>>

----------------------------------------------------------------------------
(* Bounds of the model. *)

\* longest text a buffer holds (keys and pastes that would exceed it are not offered)
MaxText == 1
\* longest session name given to sanitize_branch_name
MaxName == 4
\* most Session records in the store at once
MaxSessions == 2
\* most Field records in the store at once
MaxFields == 2
\* most live tmux sessions of this project at once
MaxLive == 2
\* most lines of a captured pane
MaxLines == 6
\* seconds the worker's clock advances per iteration of its wait loop
TickSecs == 20

\* the largest row id the store hands out to a Session and to a Field
MaxSessionId == MaxSessions
MaxFieldId == MaxFields

\* the largest display_order create_field hands out (MAX(display_order) + 1)
MaxOrder == MaxFields

\* the seconds since the epoch the clock returns on a name collision
Timestamps == {7}

(* Program constants. *)

\* Duration::from_secs(30) in fill_fields
AiTimeoutSecs == 30
\* the controller's project id: projects.id of the row get_or_create_project returns
ProjectId == 1
\* another project's id, owner of a foreign workbench tmux session
OtherProjectId == ProjectId + 1

----------------------------------------------------------------------------
(* Option and String helpers. *)

None == <<>>
Some(x) == <<x>>
IsSome(o) == Len(o) > 0
Unwrap(o) == o[1]

EmptyString == <<>>
\* String::pop: drop the last character, no-op on the empty string
Pop(s) == IF Len(s) = 0 THEN s ELSE SubSeq(s, 1, Len(s) - 1)
\* String::push
Push(s, c) == Append(s, c)
\* String::push_str
PushStr(s, t) == s \o t

\* str::starts_with on names taken as tuples of parts
StartsWith(name, prefix) ==
    /\ Len(name) >= Len(prefix)
    /\ \A i \in 1..Len(prefix) : name[i] = prefix[i]

RECURSIVE SortedSeq(_)
\* the integers of K as an ascending sequence
SortedSeq(K) ==
    IF K = {} THEN <<>>
    ELSE LET m == CHOOSE x \in K : \A y \in K : x <= y
         IN  <<m>> \o SortedSeq(K \ {m})

\* the elements of S as a sequence, ascending in key (keys are distinct)
SetToSeqBy(S, key(_)) ==
    LET keys == SortedSeq({key(x) : x \in S})
    IN  [i \in 1..Len(keys) |-> CHOOSE x \in S : key(x) = keys[i]]

SeqToSet(s) == {s[i] : i \in 1..Len(s)}

\* a faulty resize that leaves the length as it is
KeepLength(v, n) == v

\* Vec::resize(n, String::new()): truncate to n or right-pad with empty strings
Resize(v, n) == [i \in 1..n |-> IF i <= Len(v) THEN v[i] ELSE EmptyString]

----------------------------------------------------------------------------
(* db.rs: Status *)

\* Status::all()
StatusAll == <<"Planned", "InProgress", "Review", "Done">>

\* Status::as_str
as_str(status) ==
    CASE status = "Planned" -> "planned"
      [] status = "InProgress" -> "in_progress"
      [] status = "Review" -> "review"
      [] status = "Done" -> "done"

\* Status::from_str
from_str(s) ==
    CASE s = "planned" -> Some("Planned")
      [] s = "in_progress" -> Some("InProgress")
      [] s = "review" -> Some("Review")
      [] s = "done" -> Some("Done")
      [] OTHER -> None

----------------------------------------------------------------------------
(* db.rs: the record store.  d = [sessions, fields, values, foreign_keys]:  *)
(* the rows of the tables sessions, fields and session_field_values, and   *)
(* whether the connection enforces foreign keys.  The columns the          *)
(* controller never writes (checkout_path, branch_name, ticket_id,         *)
(* ticket_url, claude_session_id, timestamps) stay NULL and are left out.  *)

\* an INTEGER PRIMARY KEY without AUTOINCREMENT: one more than the largest rowid
NextRowId(rows) ==
    IF rows = {} THEN 1
    ELSE (CHOOSE m \in {r.id : r \in rows} : \A r \in rows : r.id <= m) + 1

RowId(r) == r.id

\* Database::list_sessions: the project's rows ORDER BY id, status parsed
list_sessions(d, project_id) ==
    LET rows == {r \in d.sessions : r.project_id = project_id}
        row(r) == [id |-> r.id, project_id |-> r.project_id, name |-> r.name,
                   status |-> IF IsSome(from_str(r.status))
                              THEN Unwrap(from_str(r.status)) ELSE "Planned",
                   tmux_window |-> r.tmux_window]
        sorted == SetToSeqBy(rows, RowId)
    IN  [i \in 1..Len(sorted) |-> row(sorted[i])]

\* an INSERT that adds no row
InsertNothing(d, project_id, name) == d

\* Database::create_session
create_session(d, project_id, name) ==
    [d EXCEPT !.sessions = @ \cup
        {[id |-> NextRowId(d.sessions), project_id |-> project_id, name |-> name,
          status |-> "planned", tmux_window |-> None]}]

\* an UPDATE that matches no row
UpdateNothing(d, session_id, status) == d

\* Database::update_session_status
update_session_status(d, session_id, status) ==
    [d EXCEPT !.sessions =
        {IF r.id = session_id THEN [r EXCEPT !.status = as_str(status)] ELSE r : r \in @}]

\* Database::update_session_name
update_session_name(d, session_id, name) ==
    [d EXCEPT !.sessions =
        {IF r.id = session_id THEN [r EXCEPT !.name = name] ELSE r : r \in @}]

\* Database::delete_session.  The schema declares ON DELETE CASCADE on
\* session_field_values.session_id, which SQLite applies only while foreign-key
\* enforcement is on; no code issues PRAGMA foreign_keys, so the library's
\* compile-time default (d.foreign_keys) decides.
delete_session(d, session_id) ==
    [d EXCEPT !.sessions = {r \in @ : r.id # session_id},
              !.values = IF d.foreign_keys THEN {v \in @ : v.session_id # session_id}
                         ELSE @]

\* Database::set_tmux_session
set_tmux_session(d, session_id, tmux_name) ==
    [d EXCEPT !.sessions =
        {IF r.id = session_id THEN [r EXCEPT !.tmux_window = Some(tmux_name)] ELSE r : r \in @}]

\* Database::clear_tmux_session
clear_tmux_session(d, session_id) ==
    [d EXCEPT !.sessions =
        {IF r.id = session_id THEN [r EXCEPT !.tmux_window = None] ELSE r : r \in @}]

\* ORDER BY display_order, id
FieldKey(f) == f.display_order * (MaxFieldId + 1) + f.id

\* Database::list_fields
list_fields(d, project_id) ==
    SetToSeqBy({f \in d.fields : f.project_id = project_id}, FieldKey)

\* an INSERT that leaves display_order at the column's default
CreateAtDefault(d, project_id, name, description) ==
    [d EXCEPT !.fields = @ \cup
        {[id |-> NextRowId(d.fields), project_id |-> project_id, name |-> name,
          description |-> description, display_order |-> 0, visible |-> TRUE]}]

\* Database::create_field
create_field(d, project_id, name, description) ==
    LET mine == {f \in d.fields : f.project_id = project_id}
        max_order == IF mine = {} THEN -1
                     ELSE CHOOSE m \in {f.display_order : f \in mine} :
                              \A f \in mine : f.display_order <= m
    IN  [d EXCEPT !.fields = @ \cup
            {[id |-> NextRowId(d.fields), project_id |-> project_id, name |-> name,
              description |-> description, display_order |-> max_order + 1,
              visible |-> TRUE]}]

\* Database::update_field
update_field(d, field_id, name, description) ==
    [d EXCEPT !.fields =
        {IF f.id = field_id THEN [f EXCEPT !.name = name, !.description = description]
         ELSE f : f \in @}]

\* Database::delete_field; the cascade on field_id as in delete_session
delete_field(d, field_id) ==
    [d EXCEPT !.fields = {f \in @ : f.id # field_id},
              !.values = IF d.foreign_keys THEN {v \in @ : v.field_id # field_id}
                         ELSE @]

\* Database::toggle_field_visibility (called by handle_settings_key; db.rs does not
\* hold it): flips the Field's visible flag in place
toggle_field_visibility(d, field_id) ==
    [d EXCEPT !.fields =
        {IF f.id = field_id THEN [f EXCEPT !.visible = ~@] ELSE f : f \in @}]

\* UPDATE fields SET display_order = ?1 WHERE id = ?2
SetDisplayOrder(d, field_id, order) ==
    [d EXCEPT !.fields =
        {IF f.id = field_id THEN [f EXCEPT !.display_order = order] ELSE f : f \in @}]

\* a move that writes nothing
NoMove(d, project_id, field_id) == d

\* Database::move_field_up
move_field_up(d, project_id, field_id) ==
    LET fields == list_fields(d, project_id)
        idx == {i \in 1..Len(fields) : fields[i].id = field_id}
    IN  IF idx = {} THEN d
        ELSE LET i == CHOOSE i \in idx : TRUE
             IN  IF i > 1
                 THEN SetDisplayOrder(
                          SetDisplayOrder(d, field_id, fields[i - 1].display_order),
                          fields[i - 1].id, fields[i].display_order)
                 ELSE d

\* Database::move_field_down
move_field_down(d, project_id, field_id) ==
    LET fields == list_fields(d, project_id)
        idx == {i \in 1..Len(fields) : fields[i].id = field_id}
    IN  IF idx = {} THEN d
        ELSE LET i == CHOOSE i \in idx : TRUE
             IN  IF i < Len(fields)
                 THEN SetDisplayOrder(
                          SetDisplayOrder(d, field_id, fields[i + 1].display_order),
                          fields[i + 1].id, fields[i].display_order)
                 ELSE d

\* Database::get_session_field_value: the stored value, "" when there is no row
\* a read that finds no row
EmptyValue(d, session_id, field_id) == EmptyString

get_session_field_value(d, session_id, field_id) ==
    LET hit == {v \in d.values : v.session_id = session_id /\ v.field_id = field_id}
    IN  IF hit = {} THEN EmptyString ELSE (CHOOSE v \in hit : TRUE).value

\* an INSERT without the ON CONFLICT clause
InsertValue(d, session_id, field_id, value) ==
    [d EXCEPT !.values =
        @ \cup {[session_id |-> session_id, field_id |-> field_id, value |-> value]}]

\* Database::set_session_field_value: INSERT ... ON CONFLICT DO UPDATE
set_session_field_value(d, session_id, field_id, value) ==
    [d EXCEPT !.values =
        {v \in @ : ~(v.session_id = session_id /\ v.field_id = field_id)}
        \cup {[session_id |-> session_id, field_id |-> field_id, value |-> value]}]

----------------------------------------------------------------------------
(* tmux.rs.  t = [live, panes] is the tmux server: the names of its live   *)
(* sessions and, for each, the text capture-pane prints, as the sequence   *)
(* of its lines; a line is the sequence of its pieces of text.  L is a set *)
(* of live names.                                                          *)

\* tmux::session_name: "workbench-{project_id}-{session_id}"
session_name(project_id, session_id) == <<"workbench", project_id, session_id>>

\* a suffix that leaves the name as it is
SameName(base_name, ts) == base_name

\* format!("{}-{}", base_name, ts)
suffixed_name(base_name, ts) == Append(base_name, ts)

\* tmux::session_exists
session_exists(L, name) == name \in L

\* tmux::list_workbench_sessions: names starting with "workbench-"
list_workbench_sessions(L) == {n \in L : StartsWith(n, <<"workbench">>)}

\* tmux::list_project_sessions: names starting with "workbench-{project_id}-"
list_project_sessions(L, project_id) ==
    {n \in L : StartsWith(n, <<"workbench", project_id>>)}

\* tmux::kill_session: whether the kill succeeds
kill_session_ok(L, name) == name \in L

\* tmux::kill_session: the server afterwards
kill_session(t, name) ==
    [live |-> t.live \ {name}, panes |-> [n \in t.live \ {name} |-> t.panes[n]]]

\* tmux::create_session, when new-session succeeds: the pane starts blank
create_tmux_session(t, name) ==
    [live |-> t.live \cup {name},
     panes |-> [n \in t.live \cup {name} |-> IF n \in t.live THEN t.panes[n] ELSE <<>>]]

\* the prompt patterns of is_waiting_for_input
PromptPatterns ==
    {"Enter to select", "Do you want to", "yes/yes to all/no", "Allow once",
     "Allow always", "(y/n)", "[Y/n]", "[y/N]"}

\* take(5)
LastLines == 5

\* str::contains on a text given as its pieces
Contains(text, pattern) == \E i \in 1..Len(text) : text[i] = pattern

\* content.lines().rev()
Rev(lines) == [i \in 1..Len(lines) |-> lines[Len(lines) + 1 - i]]

\* Iterator::take
Take(lines, n) == SubSeq(lines, 1, IF Len(lines) < n THEN Len(lines) ELSE n)

RECURSIVE Join(_, _)
\* join: the lines' pieces with the separator between the lines
Join(lines, sep) ==
    IF lines = <<>> THEN <<>>
    ELSE IF Len(lines) = 1 THEN lines[1]
    ELSE lines[1] \o <<sep>> \o Join(Tail(lines), sep)

\* is_waiting_for_input that searches the whole capture
AnyLine(t, name) ==
    /\ name \in t.live
    /\ \E p \in PromptPatterns : Contains(Join(t.panes[name], "\n"), p)

\* tmux::is_waiting_for_input: capture-pane succeeds on a live session only
is_waiting_for_input(t, name) ==
    IF name \in t.live
    THEN LET last_lines == Join(Take(Rev(t.panes[name]), LastLines), "\n")
         IN  \E p \in PromptPatterns : Contains(last_lines, p)
    ELSE FALSE

\* a server with these sessions, their panes blank
Server(L) == [live |-> L, panes |-> [n \in L |-> <<>>]]

----------------------------------------------------------------------------
(* app.rs.  a is the App record; w = [app, db, tmux, workers, chan, ret]   *)
(* is the App with the store it owns, the tmux server, the worker threads, *)
(* the messages in the channel whose receiver the App holds, and the value *)
(* the handler returns.  env holds what the environment answers during the *)
(* handler: env.ts (the clock), env.available (tmux -V), env.create_ok     *)
(* (tmux new-session).                                                     *)

RetNone == <<"None">>
RetAttach(name) == <<"AttachTmux", name>>
\* an error that is swallowed
RetSilent == <<"None">>

RetErr == <<"Err">>

\* App::sessions_by_status
sessions_by_status(a, status) == SelectSeq(a.sessions, LAMBDA s : s.status = status)

\* App::selected_session (selected_column and selected_row count from 0)
selected_session(a) ==
    IF a.selected_column + 1 > Len(StatusAll) THEN None
    ELSE LET sessions == sessions_by_status(a, StatusAll[a.selected_column + 1])
         IN  IF a.selected_row + 1 <= Len(sessions)
             THEN Some(sessions[a.selected_row + 1]) ELSE None

\* App::clamp_row
clamp_row(a) ==
    LET count == Len(sessions_by_status(a, StatusAll[a.selected_column + 1]))
    IN  IF count = 0 THEN [a EXCEPT !.selected_row = 0]
        ELSE IF a.selected_row >= count THEN [a EXCEPT !.selected_row = count - 1]
        ELSE a

RECURSIVE ClearStale(_, _, _)
\* the loop of refresh_tmux_sessions over self.sessions
ClearStale(d, sessions, active) ==
    IF sessions = <<>> THEN d
    ELSE LET session == Head(sessions)
             stale == /\ IsSome(session.tmux_window)
                      /\ Unwrap(session.tmux_window) \notin active
         IN  ClearStale(IF stale THEN clear_tmux_session(d, session.id) ELSE d,
                        Tail(sessions), active)

\* App::refresh_tmux_sessions
refresh_tmux_sessions(w) ==
    LET active == list_workbench_sessions(w.tmux.live)
    IN  [w EXCEPT !.app.active_tmux_sessions = active,
                  !.app.sessions_waiting_input =
                      {n \in active : is_waiting_for_input(w.tmux, n)},
                  !.db = ClearStale(w.db, w.app.sessions, active)]

\* App::refresh_sessions
refresh_sessions(w) ==
    refresh_tmux_sessions(
        [w EXCEPT !.app.sessions = list_sessions(w.db, w.app.project.id)])

\* App::refresh_fields
refresh_fields(w) == [w EXCEPT !.app.fields = list_fields(w.db, w.app.project.id)]

\* kill_session on each name of the set names
KillAll(t, names) ==
    [live |-> t.live \ names, panes |-> [n \in t.live \ names |-> t.panes[n]]]

\* the status message of cleanup_orphaned_tmux_sessions
CleanupMessage(killed) ==
    IF killed = 0 THEN <<"No orphaned sessions found">>
    ELSE <<"Cleaned up ", killed, " orphaned session", IF killed = 1 THEN "" ELSE "s">>

\* App::cleanup_orphaned_tmux_sessions
cleanup_orphaned_tmux_sessions(w) ==
    LET tmux_sessions == list_project_sessions(w.tmux.live, w.app.project.id)
        tracked == {Unwrap(s.tmux_window) :
                        s \in {t \in SeqToSet(w.app.sessions) : IsSome(t.tmux_window)}}
        untracked == {n \in tmux_sessions : n \notin tracked}
        killed == Cardinality({n \in untracked : kill_session_ok(w.tmux.live, n)})
    IN  refresh_tmux_sessions(
            [w EXCEPT !.tmux = KillAll(@, untracked),
                      !.app.status_message = Some(CleanupMessage(killed))])

\* an Enter that attaches without asking whether tmux is installed
AttachUnasked(w, env) ==
    [w EXCEPT !.ret = RetAttach(session_name(w.app.project.id, 1))]

\* App::handle_enter_key
handle_enter_key(w, env) ==
    LET sel == selected_session(w.app) IN
    IF ~env.available THEN [w EXCEPT !.ret = RetNone]
    ELSE IF ~IsSome(sel) THEN [w EXCEPT !.ret = RetNone]
    ELSE LET session == Unwrap(sel)
             base_name == session_name(w.app.project.id, session.id)
             tmux_name == IF session_exists(w.tmux.live, base_name)
                          THEN suffixed_name(base_name, env.ts) ELSE base_name
         IN  IF IsSome(session.tmux_window)
                    /\ session_exists(w.tmux.live, Unwrap(session.tmux_window))
             THEN [w EXCEPT !.ret = RetAttach(Unwrap(session.tmux_window))]
             ELSE IF ~env.create_ok \/ tmux_name \in w.tmux.live
             THEN [w EXCEPT !.ret = RetErr]
             ELSE [w EXCEPT !.tmux = create_tmux_session(@, tmux_name),
                            !.db = set_tmux_session(@, session.id, tmux_name),
                            !.app.active_tmux_sessions = @ \cup {tmux_name},
                            !.ret = RetAttach(tmux_name)]

\* a save that drops the row being typed
KeepRow(a) == a

\* App::save_current_edit_row
save_current_edit_row(a) ==
    IF a.edit_row = 0 THEN [a EXCEPT !.edit_session_name = a.input_buffer]
    ELSE IF a.edit_row - 1 < Len(a.edit_field_values)
         THEN [a EXCEPT !.edit_field_values[a.edit_row] = a.input_buffer]
         ELSE a

\* a load that leaves the active buffer as it is
LoadNothing(a) == a

\* App::load_current_edit_row
load_current_edit_row(a) ==
    IF a.edit_row = 0 THEN [a EXCEPT !.input_buffer = a.edit_session_name]
    ELSE IF a.edit_row - 1 < Len(a.edit_field_values)
         THEN [a EXCEPT !.input_buffer = a.edit_field_values[a.edit_row]]
         ELSE [a EXCEPT !.input_buffer = EmptyString]

\* a close that only sets the mode
CloseKeepBuffers(a) == [a EXCEPT !.input_mode = "Normal"]

\* the closing assignments of the Esc arm and of save_and_close_edit
CloseEdit(a) ==
    [a EXCEPT !.input_mode = "Normal", !.input_buffer = EmptyString,
              !.editing_session_id = None, !.edit_session_name = EmptyString,
              !.edit_field_values = <<>>, !.edit_mode = "Manual",
              !.ai_input = EmptyString]

RECURSIVE SaveFieldValues(_, _, _, _, _)
\* the loop of save_and_close_edit over self.fields.iter().enumerate(), from index i
SaveFieldValues(d, session_id, fields, values, i) ==
    IF i > Len(fields) THEN d
    ELSE SaveFieldValues(
             IF i <= Len(values)
             THEN set_session_field_value(d, session_id, fields[i].id, values[i])
             ELSE d,
             session_id, fields, values, i + 1)

\* App::save_and_close_edit
save_and_close_edit(w) ==
    LET a == w.app
        w1 == IF IsSome(a.editing_session_id)
              THEN LET session_id == Unwrap(a.editing_session_id)
                       d1 == IF Len(a.edit_session_name) > 0
                             THEN update_session_name(w.db, session_id, a.edit_session_name)
                             ELSE w.db
                       d2 == SaveFieldValues(d1, session_id, a.fields,
                                             a.edit_field_values, 1)
                   IN  refresh_sessions([w EXCEPT !.db = d2])
              ELSE w
    IN  [w1 EXCEPT !.app = CloseEdit(@)]

\* the worker thread App::run_ai_fill spawns, before its first step
NewWorker(fields_len, num_fields) ==
    [pc |-> "start", elapsed |-> 0, child |-> "none", fields_len |-> fields_len,
     num_fields |-> num_fields, tx_open |-> TRUE]

\* dropping a Receiver: what its channel holds is lost, later sends fail
DropReceiver(w) ==
    [w EXCEPT !.chan = <<>>,
              !.workers = [i \in 1..Len(@) |-> [@[i] EXCEPT !.tx_open = FALSE]]]

\* a run_ai_fill that does not keep the receiver
RunUnheld(w) ==
    IF Len(w.app.fields) = 0 THEN w
    ELSE [w EXCEPT !.app.ai_running = TRUE,
                   !.app.ai_error = None,
                   !.workers = Append(@, NewWorker(Len(w.app.fields),
                                                   Len(w.app.edit_field_values)))]

\* an Enter that starts no worker
StartNothing(w) == w

\* App::run_ai_fill
run_ai_fill(w) ==
    IF Len(w.app.fields) = 0 THEN w
    ELSE LET w1 == IF IsSome(w.app.ai_result_rx) THEN DropReceiver(w) ELSE w
         IN  [w1 EXCEPT !.app.ai_result_rx = Some("rx"),
                        !.app.ai_running = TRUE,
                        !.app.ai_error = None,
                        !.workers = Append(@, NewWorker(Len(w.app.fields),
                                                        Len(w.app.edit_field_values)))]

\* a faulty Ok arm that stops after the first row
ApplyFirst(edit_field_values, values) ==
    [i \in 1..Len(edit_field_values) |->
        IF i = 1 /\ i <= Len(values) THEN values[i] ELSE edit_field_values[i]]

\* the Ok arm of check_ai_result: values written over edit_field_values by position
ApplyValues(edit_field_values, values) ==
    [i \in 1..Len(edit_field_values) |->
        IF i <= Len(values) THEN values[i] ELSE edit_field_values[i]]

\* a faulty check_ai_result that never looks into the channel
NeverReceive(w) == w

\* App::check_ai_result
check_ai_result(w) ==
    IF IsSome(w.app.ai_result_rx) /\ Len(w.chan) > 0
    THEN LET result == Head(w.chan)
             a1 == IF result.ok
                   THEN [w.app EXCEPT !.edit_field_values = ApplyValues(@, result.values),
                                      !.ai_error = None]
                   ELSE [w.app EXCEPT !.ai_error = Some(result.err)]
             a2 == load_current_edit_row([a1 EXCEPT !.edit_mode = "Manual", !.edit_row = 0])
             a3 == [a2 EXCEPT !.ai_input = EmptyString, !.ai_running = FALSE,
                              !.ai_result_rx = None]
         IN  DropReceiver([w EXCEPT !.app = a3])
    ELSE w

----------------------------------------------------------------------------
(* app.rs: the key handlers.  key = [code, ch, ctrl, shift]. *)

Key(code, ch, ctrl, shift) == [code |-> code, ch |-> ch, ctrl |-> ctrl, shift |-> shift]
IsChar(key, c) == key.code = "Char" /\ key.ch = c

\* App::handle_normal_key
handle_normal_key(w, key, env) ==
    LET a == w.app
        sel == selected_session(a)
        none == [w EXCEPT !.ret = RetNone]
    IN
    CASE IsChar(key, "q") -> [none EXCEPT !.app.should_quit = TRUE]
      [] IsChar(key, "c") /\ key.ctrl -> [none EXCEPT !.app.should_quit = TRUE]
      [] IsChar(key, "n") ->
            [none EXCEPT !.app.input_mode = "NewSession", !.app.input_buffer = EmptyString]
      [] IsChar(key, "h") \/ key.code = "Left" ->
            IF a.selected_column > 0
            THEN [none EXCEPT !.app = clamp_row([a EXCEPT !.selected_column = @ - 1])]
            ELSE none
      [] IsChar(key, "l") \/ key.code = "Right" ->
            IF a.selected_column < Len(StatusAll) - 1
            THEN [none EXCEPT !.app = clamp_row([a EXCEPT !.selected_column = @ + 1])]
            ELSE none
      [] IsChar(key, "j") \/ key.code = "Down" ->
            LET count == Len(sessions_by_status(a, StatusAll[a.selected_column + 1]))
            IN  IF a.selected_row < (IF count = 0 THEN 0 ELSE count - 1)
                THEN [none EXCEPT !.app.selected_row = @ + 1]
                ELSE none
      [] IsChar(key, "k") \/ key.code = "Up" ->
            IF a.selected_row > 0 THEN [none EXCEPT !.app.selected_row = @ - 1] ELSE none
      [] IsChar(key, "m") ->
            IF IsSome(sel)
            THEN [none EXCEPT !.app.moving_session_id = Some(Unwrap(sel).id),
                              !.app.input_mode = "MoveSession"]
            ELSE none
      [] IsChar(key, "d") ->
            IF IsSome(sel)
            THEN [none EXCEPT !.app.deleting_session_id = Some(Unwrap(sel).id),
                              !.app.input_mode = "ConfirmDelete"]
            ELSE none
      [] IsChar(key, "r") -> refresh_sessions(none)
      [] IsChar(key, "e") ->
            IF IsSome(sel)
            THEN LET session == Unwrap(sel)
                 IN  [none EXCEPT
                        !.app.editing_session_id = Some(session.id),
                        !.app.edit_session_name = session.name,
                        !.app.edit_row = 0,
                        !.app.input_buffer = session.name,
                        !.app.edit_field_values =
                            [i \in 1..Len(a.fields) |->
                                get_session_field_value(w.db, session.id, a.fields[i].id)],
                        !.app.input_mode = "EditSession"]
            ELSE none
      [] key.code = "Enter" -> handle_enter_key(w, env)
      [] IsChar(key, " ") ->
            IF IsSome(sel) /\ IsSome(Unwrap(sel).tmux_window)
            THEN [none EXCEPT !.app.peek_active = ~@]
            ELSE none
      [] IsChar(key, "s") ->
            [none EXCEPT !.app.view = "Settings", !.app.selected_field = 0]
      [] IsChar(key, "x") -> cleanup_orphaned_tmux_sessions(none)
      [] OTHER -> none

\* a new-session prompt whose Enter creates the Session whatever the buffer holds
CreateAnyName(w, key) ==
    CASE key.code = "Esc" ->
            [w EXCEPT !.app.input_mode = "Normal", !.app.input_buffer = EmptyString]
      [] key.code = "Enter" ->
            [refresh_sessions([w EXCEPT !.db = create_session(@, w.app.project.id,
                                                              w.app.input_buffer)])
                EXCEPT !.app.input_mode = "Normal", !.app.input_buffer = EmptyString]
      [] key.code = "Backspace" -> [w EXCEPT !.app.input_buffer = Pop(@)]
      [] key.code = "Char" -> [w EXCEPT !.app.input_buffer = Push(@, key.ch)]
      [] OTHER -> w

\* App::handle_input_key
handle_input_key(w, key) ==
    CASE key.code = "Esc" ->
            [w EXCEPT !.app.input_mode = "Normal", !.app.input_buffer = EmptyString]
      [] key.code = "Enter" ->
            LET w1 == IF Len(w.app.input_buffer) > 0
                      THEN refresh_sessions(
                               [w EXCEPT !.db = create_session(@, w.app.project.id,
                                                               w.app.input_buffer)])
                      ELSE w
            IN  [w1 EXCEPT !.app.input_mode = "Normal", !.app.input_buffer = EmptyString]
      [] key.code = "Backspace" -> [w EXCEPT !.app.input_buffer = Pop(@)]
      [] key.code = "Char" -> [w EXCEPT !.app.input_buffer = Push(@, key.ch)]
      [] OTHER -> w

\* one row down, wrapping (Tab | Down)
NextRow(edit_row, total_rows) == IF edit_row < total_rows - 1 THEN edit_row + 1 ELSE 0
\* one row up, wrapping (BackTab | Up)
PrevRow(edit_row, total_rows) == IF edit_row > 0 THEN edit_row - 1 ELSE total_rows - 1

\* App::handle_manual_edit_key
handle_manual_edit_key(w, key, total_rows) ==
    CASE key.code \in {"Tab", "Down"} ->
            [w EXCEPT !.app = load_current_edit_row(
                [save_current_edit_row(@) EXCEPT !.edit_row = NextRow(@, total_rows)])]
      [] key.code \in {"BackTab", "Up"} ->
            [w EXCEPT !.app = load_current_edit_row(
                [save_current_edit_row(@) EXCEPT !.edit_row = PrevRow(@, total_rows)])]
      [] key.code = "Enter" ->
            save_and_close_edit([w EXCEPT !.app = save_current_edit_row(@)])
      [] key.code = "Backspace" -> [w EXCEPT !.app.input_buffer = Pop(@)]
      [] key.code = "Char" -> [w EXCEPT !.app.input_buffer = Push(@, key.ch)]
      [] OTHER -> w

\* App::handle_ai_edit_key
handle_ai_edit_key(w, key) ==
    LET total_rows == 1 + Len(w.app.fields) IN
    CASE key.code \in {"Tab", "Down"} ->
            [w EXCEPT !.app.edit_row = NextRow(@, total_rows)]
      [] key.code \in {"BackTab", "Up"} ->
            [w EXCEPT !.app.edit_row = PrevRow(@, total_rows)]
      [] key.code = "Enter" ->
            IF Len(w.app.ai_input) > 0 THEN run_ai_fill(w) ELSE w
      [] key.code = "Backspace" -> [w EXCEPT !.app.ai_input = Pop(@)]
      [] key.code = "Char" -> [w EXCEPT !.app.ai_input = Push(@, key.ch)]
      [] OTHER -> w

\* an overlay in which Esc commits
CommitOnEsc(w, key) ==
    CASE key.code = "Esc" -> save_and_close_edit(w)
      [] key.code = "BackTab" /\ key.shift ->
            LET a1 == IF w.app.edit_mode = "Manual"
                      THEN save_current_edit_row(w.app) ELSE w.app
                a2 == [a1 EXCEPT !.edit_mode = IF @ = "Manual" THEN "AI" ELSE "Manual"]
            IN  [w EXCEPT !.app = IF a2.edit_mode = "Manual"
                                  THEN load_current_edit_row(a2) ELSE a2]
      [] OTHER ->
            IF w.app.edit_mode = "Manual"
            THEN handle_manual_edit_key(w, key, 1 + Len(w.app.fields))
            ELSE handle_ai_edit_key(w, key)

\* an overlay whose toggle only flips the mode
ToggleOnly(w, key) ==
    CASE key.code = "Esc" -> [w EXCEPT !.app = CloseEdit(@)]
      [] key.code = "BackTab" /\ key.shift ->
            [w EXCEPT !.app.edit_mode = IF @ = "Manual" THEN "AI" ELSE "Manual"]
      [] OTHER ->
            IF w.app.edit_mode = "Manual"
            THEN handle_manual_edit_key(w, key, 1 + Len(w.app.fields))
            ELSE handle_ai_edit_key(w, key)

\* App::handle_edit_session_key
handle_edit_session_key(w, key) ==
    LET total_rows == 1 + Len(w.app.fields) IN
    CASE key.code = "Esc" -> [w EXCEPT !.app = CloseEdit(@)]
      [] key.code = "BackTab" /\ key.shift ->
            LET a1 == IF w.app.edit_mode = "Manual"
                      THEN save_current_edit_row(w.app) ELSE w.app
                a2 == [a1 EXCEPT !.edit_mode = IF @ = "Manual" THEN "AI" ELSE "Manual"]
            IN  [w EXCEPT !.app = IF a2.edit_mode = "Manual"
                                  THEN load_current_edit_row(a2) ELSE a2]
      [] OTHER ->
            IF w.app.edit_mode = "Manual"
            THEN handle_manual_edit_key(w, key, total_rows)
            ELSE handle_ai_edit_key(w, key)

\* App::handle_paste
handle_paste(a, text) ==
    CASE a.input_mode = "EditSession" /\ a.edit_mode = "AI" ->
            [a EXCEPT !.ai_input = PushStr(@, text)]
      [] a.input_mode = "EditSession" /\ a.edit_mode # "AI" ->
            [a EXCEPT !.input_buffer = PushStr(@, text)]
      [] a.input_mode = "NewSession" -> [a EXCEPT !.input_buffer = PushStr(@, text)]
      [] a.input_mode \in {"NewFieldName", "EditFieldName"} ->
            [a EXCEPT !.new_field_name = PushStr(@, text)]
      [] a.input_mode \in {"NewFieldDesc", "EditFieldDesc"} ->
            [a EXCEPT !.new_field_desc = PushStr(@, text)]
      [] OTHER -> a

\* (c as usize) - ('1' as usize) for c in '1'..='4'
DigitIndex(c) == CASE c = "1" -> 0 [] c = "2" -> 1 [] c = "3" -> 2 [] c = "4" -> 3

\* App::handle_move_key
handle_move_key(w, key) ==
    CASE key.code = "Esc" ->
            [w EXCEPT !.app.input_mode = "Normal", !.app.moving_session_id = None]
      [] key.code = "Char" /\ key.ch \in {"1", "2", "3", "4"} ->
            LET idx == DigitIndex(key.ch)
                w1 == IF idx < Len(StatusAll) /\ IsSome(w.app.moving_session_id)
                      THEN refresh_sessions(
                               [w EXCEPT !.db = update_session_status(
                                    @, Unwrap(w.app.moving_session_id), StatusAll[idx + 1])])
                      ELSE w
            IN  [w1 EXCEPT !.app.input_mode = "Normal", !.app.moving_session_id = None]
      [] OTHER -> w

\* a confirmation that every key cancels
CancelOnAnyKey(w, key) ==
    [w EXCEPT !.app.input_mode = "Normal", !.app.deleting_session_id = None,
              !.app.deleting_field_id = None]

\* App::handle_confirm_delete_key
handle_confirm_delete_key(w, key) ==
    CASE key.code = "Char" /\ key.ch \in {"y", "Y"} ->
            LET w1 ==
                  IF IsSome(w.app.deleting_session_id)
                  THEN LET session_id == Unwrap(w.app.deleting_session_id)
                           found == SelectSeq(w.app.sessions, LAMBDA s : s.id = session_id)
                           t1 == IF Len(found) > 0 /\ IsSome(found[1].tmux_window)
                                 THEN kill_session(w.tmux, Unwrap(found[1].tmux_window))
                                 ELSE w.tmux
                           w2 == refresh_sessions(
                                     [w EXCEPT !.tmux = t1,
                                               !.db = delete_session(@, session_id)])
                       IN  [w2 EXCEPT !.app = clamp_row(@)]
                  ELSE w
            IN  [w1 EXCEPT !.app.input_mode = "Normal", !.app.deleting_session_id = None]
      [] key.code = "Esc" \/ (key.code = "Char" /\ key.ch \in {"n", "N"}) ->
            [w EXCEPT !.app.input_mode = "Normal", !.app.deleting_session_id = None]
      [] OTHER -> w

\* App::handle_confirm_delete_field_key
handle_confirm_delete_field_key(w, key) ==
    CASE key.code = "Char" /\ key.ch \in {"y", "Y"} ->
            LET w1 ==
                  IF IsSome(w.app.deleting_field_id)
                  THEN LET w2 == refresh_fields(
                                [w EXCEPT !.db = delete_field(@, Unwrap(w.app.deleting_field_id))])
                       IN  IF w2.app.selected_field >= Len(w2.app.fields)
                                /\ w2.app.selected_field > 0
                           THEN [w2 EXCEPT !.app.selected_field = @ - 1]
                           ELSE w2
                  ELSE w
            IN  [w1 EXCEPT !.app.input_mode = "Normal", !.app.deleting_field_id = None]
      [] key.code = "Esc" \/ (key.code = "Char" /\ key.ch \in {"n", "N"}) ->
            [w EXCEPT !.app.input_mode = "Normal", !.app.deleting_field_id = None]
      [] OTHER -> w

\* App::handle_settings_key
handle_settings_key(w, key) ==
    LET a == w.app
        has_field == a.selected_field + 1 <= Len(a.fields)
        field == a.fields[a.selected_field + 1]
    IN
    CASE IsChar(key, "q") \/ key.code = "Esc" -> [w EXCEPT !.app.view = "Kanban"]
      [] IsChar(key, "c") /\ key.ctrl -> [w EXCEPT !.app.should_quit = TRUE]
      [] IsChar(key, "j") \/ key.code = "Down" ->
            IF Len(a.fields) # 0 /\ a.selected_field < Len(a.fields) - 1
            THEN [w EXCEPT !.app.selected_field = @ + 1] ELSE w
      [] IsChar(key, "k") \/ key.code = "Up" ->
            IF a.selected_field > 0 THEN [w EXCEPT !.app.selected_field = @ - 1] ELSE w
      [] IsChar(key, "n") ->
            [w EXCEPT !.app.new_field_name = EmptyString,
                      !.app.new_field_desc = EmptyString,
                      !.app.input_mode = "NewFieldName"]
      [] IsChar(key, "e") ->
            IF has_field
            THEN [w EXCEPT !.app.editing_field_id = Some(field.id),
                           !.app.new_field_name = field.name,
                           !.app.new_field_desc = field.description,
                           !.app.input_mode = "EditFieldName"]
            ELSE w
      [] IsChar(key, "d") ->
            IF has_field
            THEN [w EXCEPT !.app.deleting_field_id = Some(field.id),
                           !.app.input_mode = "ConfirmDeleteField"]
            ELSE w
      [] IsChar(key, "K") ->
            IF has_field
            THEN LET w1 == refresh_fields(
                              [w EXCEPT !.db = move_field_up(@, a.project.id, field.id)])
                 IN  IF w1.app.selected_field > 0
                     THEN [w1 EXCEPT !.app.selected_field = @ - 1] ELSE w1
            ELSE w
      [] IsChar(key, "J") ->
            IF has_field
            THEN LET w1 == refresh_fields(
                              [w EXCEPT !.db = move_field_down(@, a.project.id, field.id)])
                 IN  IF w1.app.selected_field < Len(w1.app.fields) - 1
                     THEN [w1 EXCEPT !.app.selected_field = @ + 1] ELSE w1
            ELSE w
      [] IsChar(key, "v") ->
            IF has_field
            THEN refresh_fields([w EXCEPT !.db = toggle_field_visibility(@, field.id)])
            ELSE w
      [] OTHER -> w

\* the Esc arm of the four field-editor handlers
CloseFieldEdit(a) ==
    [a EXCEPT !.input_mode = "Normal", !.editing_field_id = None,
              !.new_field_name = EmptyString, !.new_field_desc = EmptyString]

\* App::handle_new_field_name_key
handle_new_field_name_key(w, key) ==
    CASE key.code = "Esc" ->
            [w EXCEPT !.app.input_mode = "Normal", !.app.new_field_name = EmptyString,
                      !.app.new_field_desc = EmptyString]
      [] key.code = "Enter" ->
            IF Len(w.app.new_field_name) > 0
            THEN [w EXCEPT !.app.input_mode = "NewFieldDesc"] ELSE w
      [] key.code = "Backspace" -> [w EXCEPT !.app.new_field_name = Pop(@)]
      [] key.code = "Char" -> [w EXCEPT !.app.new_field_name = Push(@, key.ch)]
      [] OTHER -> w

\* App::handle_new_field_desc_key
handle_new_field_desc_key(w, key) ==
    CASE key.code = "Esc" ->
            [w EXCEPT !.app.input_mode = "Normal", !.app.new_field_name = EmptyString,
                      !.app.new_field_desc = EmptyString]
      [] key.code = "Enter" ->
            LET w1 == refresh_fields(
                        [w EXCEPT !.db = create_field(@, w.app.project.id,
                                                      w.app.new_field_name,
                                                      w.app.new_field_desc)])
            IN  [w1 EXCEPT !.app.input_mode = "Normal",
                           !.app.new_field_name = EmptyString,
                           !.app.new_field_desc = EmptyString]
      [] key.code = "Backspace" -> [w EXCEPT !.app.new_field_desc = Pop(@)]
      [] key.code = "Char" -> [w EXCEPT !.app.new_field_desc = Push(@, key.ch)]
      [] OTHER -> w

\* App::handle_edit_field_name_key
handle_edit_field_name_key(w, key) ==
    CASE key.code = "Esc" -> [w EXCEPT !.app = CloseFieldEdit(@)]
      [] key.code = "Enter" ->
            IF Len(w.app.new_field_name) > 0
            THEN [w EXCEPT !.app.input_mode = "EditFieldDesc"] ELSE w
      [] key.code = "Backspace" -> [w EXCEPT !.app.new_field_name = Pop(@)]
      [] key.code = "Char" -> [w EXCEPT !.app.new_field_name = Push(@, key.ch)]
      [] OTHER -> w

\* App::handle_edit_field_desc_key
handle_edit_field_desc_key(w, key) ==
    CASE key.code = "Esc" -> [w EXCEPT !.app = CloseFieldEdit(@)]
      [] key.code = "Enter" ->
            LET w1 == IF IsSome(w.app.editing_field_id)
                      THEN refresh_fields(
                               [w EXCEPT !.db = update_field(@, Unwrap(w.app.editing_field_id),
                                                             w.app.new_field_name,
                                                             w.app.new_field_desc)])
                      ELSE w
            IN  [w1 EXCEPT !.app = CloseFieldEdit(@)]
      [] key.code = "Backspace" -> [w EXCEPT !.app.new_field_desc = Pop(@)]
      [] key.code = "Char" -> [w EXCEPT !.app.new_field_desc = Push(@, key.ch)]
      [] OTHER -> w

\* the match on self.input_mode in handle_events
DispatchKey(w, key, env) ==
    LET none == [w EXCEPT !.ret = RetNone]
        mode == w.app.input_mode
    IN
    CASE mode = "Normal" ->
            IF w.app.view = "Kanban" THEN handle_normal_key(w, key, env)
            ELSE handle_settings_key(none, key)
      [] mode = "NewSession" -> handle_input_key(none, key)
      [] mode = "EditSession" -> handle_edit_session_key(none, key)
      [] mode = "MoveSession" -> handle_move_key(none, key)
      [] mode = "ConfirmDelete" -> handle_confirm_delete_key(none, key)
      [] mode = "ConfirmDeleteField" -> handle_confirm_delete_field_key(none, key)
      [] mode = "NewFieldName" -> handle_new_field_name_key(none, key)
      [] mode = "NewFieldDesc" -> handle_new_field_desc_key(none, key)
      [] mode = "EditFieldName" -> handle_edit_field_name_key(none, key)
      [] mode = "EditFieldDesc" -> handle_edit_field_desc_key(none, key)

\* a faulty handle_events without the gate
Ungated(w, key, env) == DispatchKey(w, key, env)

\* the `if self.ai_running { return }` gate of handle_events
AiGate(w, key, env) ==
    IF w.app.ai_running THEN [w EXCEPT !.ret = RetNone] ELSE DispatchKey(w, key, env)

\* a handle_events that leaves the status message to the handlers
KeepMessage(w, ev, env) ==
    LET w1 == [check_ai_result(w) EXCEPT !.ret = RetNone] IN
    CASE ev.kind = "key" -> AiGate(w1, ev.key, env)
      [] ev.kind = "paste" ->
            IF ~w1.app.ai_running THEN [w1 EXCEPT !.app = handle_paste(@, ev.text)] ELSE w1
      [] OTHER -> w1

\* App::handle_events.  ev = [kind, key, text]: kind is "none" when the poll times
\* out, "key" for Event::Key, "paste" for Event::Paste, "other" for any other event
handle_events(w, ev, env) ==
    LET w1 == [check_ai_result(w) EXCEPT !.ret = RetNone] IN
    CASE ev.kind = "key" -> AiGate([w1 EXCEPT !.app.status_message = None], ev.key, env)
      [] ev.kind = "paste" ->
            IF ~w1.app.ai_running THEN [w1 EXCEPT !.app = handle_paste(@, ev.text)] ELSE w1
      [] OTHER -> w1

----------------------------------------------------------------------------
(* ai.rs and the thread of run_ai_fill.  A worker is                      *)
(* [pc, elapsed, child, fields_len, num_fields, tx_open]: pc is "start"    *)
(* before Command::spawn and "wait" in the try_wait loop; child tells      *)
(* whether the spawned command "exits" on its own or "hangs"; a worker     *)
(* that has sent its result has exited and is no longer in `workers`.      *)

Ok(values) == [ok |-> TRUE, values |-> values, err |-> ""]
Err(e) == [ok |-> FALSE, values |-> <<>>, err |-> e]

ErrSpawn == "Failed to run claude"
ErrTimeout == "claude command timed out"
ErrWait == "Error waiting for claude"
ErrJson == "Failed to parse claude output as JSON"
ErrNoResult == "No result in claude output"
ErrArray == "Failed to parse AI response as JSON array"

\* fill_fields after the child has exited: out = [kind, raw] is what stdout holds
fill_fields(out, fields_len) ==
    CASE out.kind = "bad_json" -> Err(ErrJson)
      [] out.kind = "no_result" -> Err(ErrNoResult)
      [] out.kind = "bad_array" -> Err(ErrArray)
      [] out.kind = "array" -> Ok(Resize(out.raw, fields_len))

\* the closure of run_ai_fill: .map(|mut values| values.resize(num_fields, ..))
ThreadResult(result, num_fields) ==
    IF result.ok THEN Ok(Resize(result.values, num_fields)) ELSE result

\* the workers after worker i has exited
Exited(i) ==
    [j \in 1..(Len(workers) - 1) |-> IF j < i THEN workers[j] ELSE workers[j + 1]]

\* a faulty worker that sends its result twice
SendTwice(i, result) ==
    /\ chan' = IF workers[i].tx_open THEN Append(Append(chan, result), result) ELSE chan
    /\ workers' = Exited(i)

\* a faulty worker that exits without sending
ExitSilently(i, result) ==
    /\ chan' = chan
    /\ workers' = Exited(i)

\* tx.send(result) of worker i, which then exits: the result is lost when the
\* receiver is gone
SendAndExit(i, result) ==
    /\ chan' = IF workers[i].tx_open THEN Append(chan, result) ELSE chan
    /\ workers' = Exited(i)

----------------------------------------------------------------------------
(* git.rs: branch names.  A String is the sequence of its chars; the two   *)
(* chars outside ASCII are written by their code points.                   *)

\* char::is_alphanumeric on the chars of the model: "U+0130" is the capital
\* I with dot above (a letter), "U+0307" the combining dot above (a mark)
is_alphanumeric(c) == c \in {"A", "a", "i", "1", "U+0130"}

\* str::to_lowercase: char by char; the lower case of U+0130 is two chars
RECURSIVE to_lowercase(_)
to_lowercase(str) ==
    IF str = <<>> THEN <<>>
    ELSE LET c == Head(str)
             lower == CASE c = "A" -> <<"a">>
                        [] c = "U+0130" -> <<"i", "U+0307">>
                        [] OTHER -> <<c>>
         IN  lower \o to_lowercase(Tail(str))

\* a sanitizer that maps the chars and stops there
MapOnly(name) ==
    LET lowered == to_lowercase(name)
    IN  <<"w", "b", "/">> \o
        [i \in 1..Len(lowered) |->
            IF is_alphanumeric(lowered[i]) THEN lowered[i] ELSE "-"]

\* the for loop of sanitize_branch_name over the chars left to read
RECURSIVE PushChars(_, _, _)
PushChars(chars, result, last_was_dash) ==
    IF chars = <<>> THEN result
    ELSE LET c == Head(chars) IN
         IF c = "-"
         THEN IF ~last_was_dash
              THEN PushChars(Tail(chars), Append(result, c), TRUE)
              ELSE PushChars(Tail(chars), result, last_was_dash)
         ELSE PushChars(Tail(chars), Append(result, c), FALSE)

\* while result.ends_with('-') { result.pop(); }
RECURSIVE PopDashes(_)
PopDashes(result) ==
    IF result # <<>> /\ result[Len(result)] = "-"
    THEN PopDashes(SubSeq(result, 1, Len(result) - 1))
    ELSE result

\* git::sanitize_branch_name(session_name: &str)
sanitize_branch_name(name) ==
    LET lowered == to_lowercase(name)
        sanitized == [i \in 1..Len(lowered) |->
                         IF is_alphanumeric(lowered[i]) THEN lowered[i] ELSE "-"]
        result == PopDashes(PushChars(sanitized, <<>>, TRUE))
    IN  <<"w", "b", "/">> \o
        (IF result = <<>> THEN <<"s", "e", "s", "s", "i", "o", "n">> ELSE result)

\* no call of sanitize_branch_name
NoCall == [session_name |-> <<>>, branch |-> None]

----------------------------------------------------------------------------
(* The inputs the model draws from. *)

\* the characters typed into text buffers
TextChars == {"a"}

RECURSIVE TextsUpTo(_)
TextsUpTo(n) ==
    IF n = 0 THEN {<<>>}
    ELSE TextsUpTo(n - 1) \cup
         {Append(t, c) : t \in {u \in TextsUpTo(n - 1) : Len(u) = n - 1}, c \in TextChars}

\* the texts a buffer can hold
Texts == TextsUpTo(MaxText)

\* the strings the external command puts in its JSON array
AiTexts == {EmptyString, <<"b">>}

RECURSIVE ListsUpTo(_)
\* the lists of at most n such strings
ListsUpTo(n) ==
    IF n = 0 THEN {<<>>}
    ELSE ListsUpTo(n - 1) \cup
         {Append(l, t) : l \in {u \in ListsUpTo(n - 1) : Len(u) = n - 1}, t \in AiTexts}

\* a foreign project's workbench session and a session that is not workbench's
ForeignName == <<"workbench", OtherProjectId, 1>>
PlainName == <<"main">>

PlainKey(code) == Key(code, "", FALSE, FALSE)
CharKey(c) == Key("Char", c, FALSE, FALSE)

\* the keys that are no characters
ControlKeys ==
    {PlainKey(c) : c \in {"Enter", "Esc", "Backspace", "Tab", "BackTab", "Up", "Down",
                          "Left", "Right", "Other"}}
    \cup {Key("BackTab", "", FALSE, TRUE)}

\* every key the model presses
AllKeys ==
    ControlKeys
    \cup {CharKey(c) : c \in TextChars \cup
            {"q", "c", "n", "h", "l", "j", "k", "m", "d", "r", "e", " ", "s", "x",
             "1", "2", "3", "4", "y", "Y", "N", "K", "J", "v"}}
    \cup {Key("Char", "c", TRUE, FALSE)}

\* what the environment answers during open-terminal
Envs == [ts : Timestamps, available : BOOLEAN, create_ok : BOOLEAN]

\* the lines a pane shows: a shell prompt, a question with a prompt pattern
PaneLines == {<<"$ ">>, <<"Proceed? ", "(y/n)">>}

\* the captures of at most MaxLines lines
PaneTexts == UNION {[1..n -> PaneLines] : n \in 0..MaxLines}

----------------------------------------------------------------------------
(* main.rs.  main = [pc, attached, terminal, inside_tmux]: pc is "loop" in *)
(* the event loop, "attached" while tmux attach-session blocks, "exited"   *)
(* after the loop ended on should_quit, "failed" after an Err left main.   *)

World == [app |-> app, db |-> db, tmux |-> tmux, workers |-> workers,
          chan |-> chan, ret |-> RetNone]

\* an iteration that handles the event and attaches to nothing
HandleOnly(w, m, ev, env) == [w |-> handle_events(w, ev, env), m |-> m]

\* tui::restore (tui.rs is not among the sources): the terminal is released
tui_restore(m) == [m EXCEPT !.terminal = "restored"]

\* tui::init (tui.rs is not among the sources): the terminal is acquired
tui_init(m) == [m EXCEPT !.terminal = "tui"]

\* one iteration of the loop of main, up to the call of tmux::attach_session:
\* the world and main afterwards
main_iteration(w, m, ev, env) ==
    LET w1 == handle_events(w, ev, env) IN
    CASE w1.ret = RetErr -> [w |-> w1, m |-> [m EXCEPT !.pc = "failed"]]
      [] w1.ret[1] = "AttachTmux" ->
            IF m.inside_tmux
            THEN [w |-> refresh_tmux_sessions(w1), m |-> m]
            ELSE [w |-> w1, m |-> [tui_restore(m) EXCEPT !.pc = "attached",
                                                         !.attached = Some(w1.ret[2])]]
      [] OTHER ->
            IF w1.app.should_quit
            THEN [w |-> w1, m |-> [tui_restore(m) EXCEPT !.pc = "exited"]]
            ELSE [w |-> w1, m |-> m]

\* the texts, records and tmux sessions stay within the model's bounds
WithinBounds(w) ==
    /\ \A t \in {w.app.input_buffer, w.app.ai_input, w.app.new_field_name,
                 w.app.new_field_desc} : Len(t) <= MaxText
    /\ Cardinality(w.db.sessions) <= MaxSessions
    /\ \A r \in w.db.sessions : r.id <= MaxSessionId
    /\ Cardinality(w.db.fields) <= MaxFields
    /\ \A f \in w.db.fields : f.id <= MaxFieldId
    /\ \A f \in w.db.fields : f.display_order <= MaxOrder
    /\ Cardinality(list_project_sessions(w.tmux.live, ProjectId)) <= MaxLive

\* the state after one iteration of main's loop on event ev
Iterate(ev, env) ==
    /\ main.pc = "loop"
    /\ \E r \in {main_iteration(World, main, ev, env)} :
          /\ WithinBounds(r.w)
          /\ app' = r.w.app
          /\ db' = r.w.db
          /\ tmux' = r.w.tmux
          /\ workers' = r.w.workers
          /\ chan' = r.w.chan
          /\ main' = r.m
          /\ git' = git

KeyEvent(key) == [kind |-> "key", key |-> key, text |-> EmptyString]
PasteEvent(text) == [kind |-> "paste", key |-> PlainKey("Other"), text |-> text]
NoEvent == [kind |-> "none", key |-> PlainKey("Other"), text |-> EmptyString]

\* the environment of a handler that asks tmux nothing
QuietEnv == [ts |-> 0, available |-> TRUE, create_ok |-> TRUE]

\* App::new
AppNew(d, t) ==
    [should_quit |-> FALSE,
     project |-> [id |-> ProjectId],
     sessions |-> list_sessions(d, ProjectId),
     selected_column |-> 0,
     selected_row |-> 0,
     input_mode |-> "Normal",
     input_buffer |-> EmptyString,
     active_tmux_sessions |-> list_workbench_sessions(t.live),
     sessions_waiting_input |->
         {n \in list_workbench_sessions(t.live) : is_waiting_for_input(t, n)},
     editing_session_id |-> None,
     moving_session_id |-> None,
     deleting_session_id |-> None,
     peek_active |-> FALSE,
     edit_row |-> 0,
     edit_session_name |-> EmptyString,
     edit_field_values |-> <<>>,
     edit_mode |-> "Manual",
     ai_input |-> EmptyString,
     ai_running |-> FALSE,
     ai_error |-> None,
     ai_result_rx |-> None,
     view |-> "Kanban",
     fields |-> list_fields(d, ProjectId),
     selected_field |-> 0,
     editing_field_id |-> None,
     deleting_field_id |-> None,
     new_field_name |-> EmptyString,
     new_field_desc |-> EmptyString,
     status_message |-> None]

----------------------------------------------------------------------------
(* The actions: one per arm of handle_events' dispatch, one per step of    *)
(* the worker thread, and the environment's.  K is the set of keys the     *)
(* user presses in that mode.                                              *)

\* only open-terminal (Enter in Normal/Kanban) reads the clock, tmux -V and the
\* outcome of new-session
KeyEnvs(key) == IF key.code = "Enter" THEN Envs ELSE {QuietEnv}

\* the poll of handle_events times out: only check_ai_result runs
PollTimeout ==
    /\ main.pc = "loop"
    /\ Iterate(NoEvent, QuietEnv)

\* Event::Paste
Paste(T) ==
    /\ main.pc = "loop"
    /\ \E text \in T : Iterate(PasteEvent(text), QuietEnv)

\* Event::Paste while the edit overlay is in AI mode: the text goes to the prompt
PastePrompt(T) ==
    /\ app.input_mode = "EditSession" /\ app.edit_mode = "AI"
    /\ \E text \in T : Iterate(PasteEvent(text), QuietEnv)

KeyNormalKanban(K) ==
    /\ app.input_mode = "Normal" /\ app.view = "Kanban"
    /\ \E key \in K : \E env \in KeyEnvs(key) : Iterate(KeyEvent(key), env)

KeyNormalSettings(K) ==
    /\ app.input_mode = "Normal" /\ app.view = "Settings"
    /\ \E key \in K : Iterate(KeyEvent(key), QuietEnv)

KeyNewSession(K) ==
    /\ app.input_mode = "NewSession"
    /\ \E key \in K : Iterate(KeyEvent(key), QuietEnv)

\* a key in the edit overlay's Manual mode (the Manual/AI toggle included)
KeyEditManual(K) ==
    /\ app.input_mode = "EditSession" /\ app.edit_mode = "Manual"
    /\ \E key \in K : Iterate(KeyEvent(key), QuietEnv)

\* a key in the edit overlay's AI mode (the Manual/AI toggle included)
KeyEditAI(K) ==
    /\ app.input_mode = "EditSession" /\ app.edit_mode = "AI"
    /\ \E key \in K : Iterate(KeyEvent(key), QuietEnv)

KeyMoveSession(K) ==
    /\ app.input_mode = "MoveSession"
    /\ \E key \in K : Iterate(KeyEvent(key), QuietEnv)

KeyConfirmDelete(K) ==
    /\ app.input_mode = "ConfirmDelete"
    /\ \E key \in K : Iterate(KeyEvent(key), QuietEnv)

KeyConfirmDeleteField(K) ==
    /\ app.input_mode = "ConfirmDeleteField"
    /\ \E key \in K : Iterate(KeyEvent(key), QuietEnv)

KeyFieldEditor(K) ==
    /\ app.input_mode \in {"NewFieldName", "NewFieldDesc", "EditFieldName", "EditFieldDesc"}
    /\ \E key \in K : Iterate(KeyEvent(key), QuietEnv)

\* tmux attach-session returns: main takes the terminal back and refreshes
Detach ==
    /\ main.pc = "attached"
    /\ LET w1 == refresh_tmux_sessions(World)
       IN  /\ app' = w1.app
           /\ db' = w1.db
    /\ main' = [tui_init(main) EXCEPT !.pc = "loop", !.attached = None]
    /\ UNCHANGED <<tmux, workers, chan, git>>

\* a tmux session of this project ends outside the controller
TmuxSessionEnds ==
    /\ main.pc \in {"loop", "attached"}
    /\ \E n \in list_project_sessions(tmux.live, ProjectId) : tmux' = kill_session(tmux, n)
    /\ UNCHANGED <<app, db, workers, chan, main, git>>

\* the pane of a tmux session of this project shows another text
PaneChanges ==
    /\ main.pc \in {"loop", "attached"}
    /\ \E n \in list_project_sessions(tmux.live, ProjectId) :
          \E text \in PaneTexts \ {tmux.panes[n]} :
              tmux' = [tmux EXCEPT !.panes[n] = text]
    /\ UNCHANGED <<app, db, workers, chan, main, git>>

\* the worker's Command::spawn
WorkerSpawn ==
    /\ main.pc \in {"loop", "attached"}
    /\ \E i \in 1..Len(workers) :
          /\ workers[i].pc = "start"
          /\ \/ \E child \in {"exits", "hangs"} :
                   /\ workers' = [workers EXCEPT ![i].pc = "wait", ![i].child = child]
                   /\ chan' = chan
             \/ SendAndExit(i, ThreadResult(Err(ErrSpawn), workers[i].num_fields))
    /\ UNCHANGED <<app, db, tmux, main, git>>

\* one iteration of the worker's try_wait loop; when the child has exited, the
\* worker reads and parses its output and sends the result
WorkerWait ==
    /\ main.pc \in {"loop", "attached"}
    /\ \E i \in 1..Len(workers) :
          /\ workers[i].pc = "wait"
          /\ \/ \E kind \in {"bad_json", "no_result", "bad_array", "array"} :
                /\ workers[i].child = "exits"
                /\ \E raw \in IF kind = "array" THEN ListsUpTo(workers[i].fields_len + 1)
                           ELSE {<<>>} :
                   SendAndExit(i, ThreadResult(
                       fill_fields([kind |-> kind, raw |-> raw], workers[i].fields_len),
                       workers[i].num_fields))
             \/ /\ workers[i].elapsed > AiTimeoutSecs
                /\ SendAndExit(i, ThreadResult(Err(ErrTimeout), workers[i].num_fields))
             \/ /\ workers[i].elapsed <= AiTimeoutSecs
                /\ workers' = [workers EXCEPT ![i].elapsed = @ + TickSecs]
                /\ chan' = chan
             \/ SendAndExit(i, ThreadResult(Err(ErrWait), workers[i].num_fields))
    /\ UNCHANGED <<app, db, tmux, main, git>>

----------------------------------------------------------------------------
(* The text keys and the command keys of each mode. *)

TextKeys == ControlKeys \cup {CharKey(c) : c \in TextChars}

\* the Kanban keys of the terminal-session life cycle: create, select, delete,
\* refresh, open terminal, orphan cleanup, quit
KanbanKeys ==
    {CharKey(c) : c \in {"q", "n", "j", "k", "d", "r", "x"}}
    \cup {PlainKey(c) : c \in {"Enter", "Other"}}
    \cup {Key("Char", "c", TRUE, FALSE)}

\* the Kanban keys of the board: create, navigate, move, delete, refresh
BoardKeys ==
    {CharKey(c) : c \in {"n", "h", "l", "j", "k", "m", "d", "r"}}
    \cup {PlainKey(c) : c \in {"Left", "Right", "Up", "Down", "Other"}}

MoveKeys == {CharKey(c) : c \in {"1", "2", "3", "4", "x"}} \cup {PlainKey("Esc")}
ConfirmKeys == {CharKey(c) : c \in {"y", "n", "x"}} \cup {PlainKey("Esc")}

\* the empty store, opened by a library with SQLite's own default: foreign-key
\* enforcement off
EmptyDb == [sessions |-> {}, fields |-> {}, values |-> {}, foreign_keys |-> FALSE]

InitWith(d, t, inside_tmux) ==
    /\ db = d
    /\ tmux = t
    /\ app = AppNew(d, t)
    /\ workers = <<>>
    /\ chan = <<>>
    /\ main = [pc |-> "loop", attached |-> None, terminal |-> "tui",
               inside_tmux |-> inside_tmux]
    /\ git = NoCall

(* The terminal-session life cycle: an empty store, a foreign project's    *)
(* tmux session and a plain one live, the controller started outside tmux. *)
Init == InitWith(EmptyDb, Server({ForeignName, PlainName}), FALSE)

Next ==
    \/ KeyNormalKanban(KanbanKeys)
    \/ KeyNewSession(TextKeys)
    \/ KeyConfirmDelete(ConfirmKeys)
    \/ Detach
    \/ TmuxSessionEnds

Spec == Init /\ [][Next]_vars

(* The board: sessions are created, moved between the columns and deleted; *)
(* no terminal is opened.                                                   *)
NextBoard ==
    \/ KeyNormalKanban(BoardKeys)
    \/ KeyNewSession(TextKeys)
    \/ KeyMoveSession(MoveKeys)
    \/ KeyConfirmDelete(ConfirmKeys)

SpecBoard == Init /\ [][NextBoard]_vars

----------------------------------------------------------------------------
(* The AI fill: a store that holds one session, nf fields and a value of   *)
(* the session for each field, left by an earlier run; the session's edit  *)
(* overlay is opened, the rows are walked, the prompt is typed and pasted  *)
(* in AI mode and the fill is run, the worker thread beside the event      *)
(* loop.                                                                   *)

RECURSIVE WithFields(_, _)
\* the store d after nf fields were added in Settings
WithFields(d, nf) ==
    IF nf = 0 THEN d
    ELSE create_field(WithFields(d, nf - 1), ProjectId, <<"a">>, EmptyString)

\* the store d after the session's value of every field was set to "a"
WithValues(d, session_id) ==
    SaveFieldValues(d, session_id, list_fields(d, ProjectId),
                    [i \in 1..Cardinality(d.fields) |-> <<"a">>], 1)

\* a store with one session, nf fields and the session's values
StoreWith(nf) == WithValues(WithFields(create_session(EmptyDb, ProjectId, <<"a">>), nf), 1)

\* the Kanban keys of the scenario: edit, orphan cleanup, any other key
EditKeys == {CharKey(c) : c \in {"e", "x"}} \cup {PlainKey("Other")}

\* the keys of Manual mode that walk the rows, toggle the mode or close the overlay
WalkKeys ==
    {PlainKey(c) : c \in {"Esc", "Tab", "BackTab", "Other"}}
    \cup {Key("BackTab", "", FALSE, TRUE)}

\* the keys of AI mode: run, close, erase, walk the rows, toggle, type, any other key
PromptKeys ==
    {PlainKey(c) : c \in {"Enter", "Esc", "Backspace", "Tab", "BackTab", "Other"}}
    \cup {Key("BackTab", "", FALSE, TRUE)}
    \cup {CharKey(c) : c \in TextChars}

\* the pastes: every non-empty text
Pastes == Texts \ {EmptyString}

InitEdit ==
    \E nf \in 0..MaxFields :
        InitWith(StoreWith(nf), Server({ForeignName, PlainName}), FALSE)

NextEdit ==
    \/ KeyNormalKanban(EditKeys)
    \/ KeyEditManual(WalkKeys)
    \/ KeyEditAI(PromptKeys)
    \/ PastePrompt(Pastes)
    \/ PollTimeout
    \/ WorkerSpawn
    \/ WorkerWait

SpecEdit == InitEdit /\ [][NextEdit]_vars

(* The same scenario under the scheduling the code relies on: the OS runs  *)
(* the worker thread (its spawn and each turn of its try_wait loop), and   *)
(* the loop of main calls handle_events again after every poll of 100 ms.  *)
\* the field counts of this scenario (with no field run_ai_fill starts no worker)
LiveFields == {1, 2}

InitLive ==
    \E nf \in LiveFields :
        InitWith(StoreWith(nf), Server({ForeignName, PlainName}), FALSE)

SpecLive ==
    /\ InitLive /\ [][NextEdit]_vars
    /\ WF_vars(WorkerSpawn)
    /\ WF_vars(WorkerWait)
    /\ WF_vars(PollTimeout)

(* The store scenario: one session with its values, one or more fields,    *)
(* and either default of foreign-key enforcement; the session is deleted,  *)
(* the fields are walked, reordered, shown, hidden and deleted.            *)

\* the Kanban keys of the scenario: delete, settings, any other key
StoreKeys == {CharKey(c) : c \in {"d", "s"}} \cup {PlainKey("Other")}

\* the Settings keys of the scenario: walk, move up and down, toggle, delete, back
SettingsKeys == {CharKey(c) : c \in {"j", "k", "K", "J", "v", "d", "q"}}

InitStore ==
    \E fk \in BOOLEAN : \E nf \in 1..MaxFields :
        InitWith([StoreWith(nf) EXCEPT !.foreign_keys = fk],
                 Server({ForeignName, PlainName}), FALSE)

NextStore ==
    \/ KeyNormalKanban(StoreKeys)
    \/ KeyConfirmDelete(ConfirmKeys)
    \/ KeyNormalSettings(SettingsKeys)
    \/ KeyConfirmDeleteField(ConfirmKeys)

SpecStore == InitStore /\ [][NextStore]_vars

(* The pane scenario: the controller starts on a store whose one session   *)
(* holds the handle of a live tmux session; the pane of that session       *)
(* changes, the board is refreshed, the tmux session ends.                 *)

\* the Kanban keys of the scenario: refresh, any other key
PaneKeys == {CharKey("r"), PlainKey("Other")}

InitPane ==
    InitWith(set_tmux_session(create_session(EmptyDb, ProjectId, <<"a">>), 1,
                              session_name(ProjectId, 1)),
             Server({session_name(ProjectId, 1)}), FALSE)

NextPane ==
    \/ PaneChanges
    \/ KeyNormalKanban(PaneKeys)
    \/ TmuxSessionEnds

SpecPane == InitPane /\ [][NextPane]_vars

(* The commit scenario: a store with one session, up to MaxFields fields,   *)
(* the last of them moved up in Settings or not, and the session's values  *)
(* set or never set; the session is edited row by row in Manual mode and   *)
(* committed or closed.                                                    *)

\* the keys of Manual mode: commit, close, walk, erase, type, any other key
CommitKeys ==
    {PlainKey(c) : c \in {"Enter", "Esc", "Tab", "BackTab", "Backspace", "Other"}}
    \cup {CharKey(c) : c \in TextChars}

InitCommit ==
    \E nf \in 0..MaxFields : \E moved, valued \in BOOLEAN :
        LET d == IF valued THEN StoreWith(nf)
                 ELSE WithFields(create_session(EmptyDb, ProjectId, <<"a">>), nf)
        IN  InitWith(IF moved THEN move_field_up(d, ProjectId, nf) ELSE d,
                     Server({ForeignName, PlainName}), FALSE)

NextCommit ==
    \/ KeyNormalKanban({CharKey("e"), PlainKey("Other")})
    \/ KeyEditManual(CommitKeys)

SpecCommit == InitCommit /\ [][NextCommit]_vars

(* The move scenario: the controller starts on a store whose one session   *)
(* has its values and the handle of a live tmux session; the session is    *)
(* moved between the columns, the columns are walked, the tmux session     *)
(* ends.                                                                   *)

\* the Kanban keys of the scenario: move, walk the columns, any other key
ColumnKeys == {CharKey(c) : c \in {"m", "h", "l"}} \cup {PlainKey("Other")}

InitMove ==
    \E nf \in 0..MaxFields :
        InitWith(set_tmux_session(StoreWith(nf), 1, session_name(ProjectId, 1)),
                 Server({session_name(ProjectId, 1), PlainName}), FALSE)

NextMove ==
    \/ KeyNormalKanban(ColumnKeys)
    \/ KeyMoveSession(MoveKeys)
    \/ TmuxSessionEnds

SpecMove == InitMove /\ [][NextMove]_vars

(* The attach scenario: the controller starts inside or outside a tmux     *)
(* session on a store with one session; terminals are opened with tmux     *)
(* installed or not and new-session succeeding or not, the board is        *)
(* refreshed and cleaned up, tmux sessions end.                            *)

\* the Kanban keys of the scenario: open terminal, refresh, cleanup, any other
AttachKeys == {PlainKey("Enter"), CharKey("r"), CharKey("x"), PlainKey("Other")}

InitAttach ==
    \E inside \in BOOLEAN :
        InitWith(create_session(EmptyDb, ProjectId, <<"a">>),
                 Server({ForeignName, PlainName}), inside)

NextAttach ==
    \/ KeyNormalKanban(AttachKeys)
    \/ Detach
    \/ TmuxSessionEnds

SpecAttach == InitAttach /\ [][NextAttach]_vars

(* The fields scenario: from the empty store, fields are created, edited,  *)
(* reordered and deleted in Settings.                                      *)

\* the Settings keys of the scenario: new, edit, delete, move up and down, walk
FieldListKeys == {CharKey(c) : c \in {"n", "e", "d", "K", "J", "j", "k"}}

\* the keys of the four field editors: next or commit, close, erase, type
FieldKeys ==
    {PlainKey(c) : c \in {"Enter", "Esc", "Backspace"}} \cup {CharKey(c) : c \in TextChars}

NextFields ==
    \/ KeyNormalKanban({CharKey("s")})
    \/ KeyNormalSettings(FieldListKeys)
    \/ KeyFieldEditor(FieldKeys)
    \/ KeyConfirmDeleteField(ConfirmKeys)

SpecFields == Init /\ [][NextFields]_vars

----------------------------------------------------------------------------
(* The properties of the AI fill, checked under SpecEdit and SpecLive.     *)

\* a result waits in the channel whose receiver the App holds
ResultPending == IsSome(app.ai_result_rx) /\ Len(chan) > 0

\* the App after check_ai_result has run on the current state
AfterCheck == check_ai_result(World).app

\* C1: while ai_running is true, a step of the event loop that is not the
\* channel poll receiving a result (ai_running stays true, and the step is not
\* the worker's) leaves the whole App (mode, buffers, selection, status message,
\* quit flag) and the store unchanged, whatever key or paste it handled.
C1_GatedFrame ==
    [][(app.ai_running /\ app'.ai_running /\ workers' = workers /\ chan' = chan)
           => (app' = app /\ db' = db /\ tmux' = tmux /\ main' = main)]_vars

\* C1, its case: a run is on in AI mode with a typed prompt, the worker has
\* waited past the timeout and no result is in the channel, so that every key
\* and paste handled since the run began met the gate.
C1_Witness ==
    /\ app.ai_running
    /\ app.input_mode = "EditSession" /\ app.edit_mode = "AI"
    /\ Len(app.ai_input) > 0
    /\ chan = <<>>
    /\ Len(workers) = 1 /\ workers[1].elapsed > AiTimeoutSecs

\* C2: at most one worker is in flight: a run is on exactly when one worker lives
\* or its one result waits in the channel, never both and never two; the App
\* holds a receiver exactly while a run is on, and a live worker's sender is
\* connected to it.
C2_OneWorker ==
    /\ Len(workers) + Len(chan) <= 1
    /\ app.ai_running <=> (Len(workers) + Len(chan) = 1)
    /\ app.ai_running <=> IsSome(app.ai_result_rx)
    /\ \A i \in 1..Len(workers) : workers[i].tx_open

\* C2, its case: the worker of a run has sent its one result and exited, and the
\* result is not yet consumed.
C2_Witness ==
    /\ app.ai_running
    /\ workers = <<>>
    /\ Len(chan) = 1

\* C3: when check_ai_result receives a result, Ok or Err, the App afterwards has
\* ai_running = false, edit_mode = Manual, edit_row = 0, an empty ai_input and no
\* receiver.
C3_ResultResets ==
    ResultPending =>
        /\ ~AfterCheck.ai_running
        /\ AfterCheck.edit_mode = "Manual"
        /\ AfterCheck.edit_row = 0
        /\ AfterCheck.ai_input = EmptyString
        /\ AfterCheck.ai_result_rx = None

\* C3, its case: a result is received while the run is on, the overlay is in AI
\* mode on a field row and the prompt is typed, and check_ai_result resets them.
C3_Witness ==
    /\ ResultPending
    /\ app.ai_running /\ app.edit_mode = "AI" /\ app.edit_row > 0
    /\ Len(app.ai_input) > 0
    /\ AfterCheck.edit_row = 0 /\ AfterCheck.edit_mode = "Manual"

\* the edit buffers after a run whose external command returned the list raw:
\* fill_fields' resize, the thread's resize, the Ok arm of check_ai_result
AppliedValues(raw, fields_len, num_fields, edit_field_values) ==
    ApplyValues(edit_field_values,
                ThreadResult(fill_fields([kind |-> "array", raw |-> raw], fields_len),
                             num_fields).values)

\* C4: for the field count n of a run and every raw list the external command
\* can return, shorter than n, of length n or longer, the values applied to the
\* edit buffers have length exactly n, entry i of the raw list is in row i, and
\* the rows past the raw list are empty; a successful result that waits in the
\* channel has length n.
C4_LengthCorrected ==
    /\ \A i \in 1..Len(workers) :
          \A raw \in ListsUpTo(Len(app.fields) + 1) :
             LET n == Len(app.fields)
                 applied == AppliedValues(raw, workers[i].fields_len,
                                          workers[i].num_fields, app.edit_field_values)
             IN  /\ Len(applied) = n
                 /\ \A k \in 1..n :
                       applied[k] = IF k <= Len(raw) THEN raw[k] ELSE EmptyString
    /\ (ResultPending /\ Head(chan).ok) =>
          /\ Len(Head(chan).values) = Len(app.fields)
          /\ AfterCheck.edit_field_values = Head(chan).values

\* C4, its case: with two fields or more, whose rows all hold "a", the worker
\* waits for a command that can return a shorter and a longer list.
C4_Witness ==
    /\ Len(app.fields) >= 2
    /\ \A k \in 1..Len(app.edit_field_values) : app.edit_field_values[k] = <<"a">>
    /\ Len(workers) = 1 /\ workers[1].pc = "wait" /\ workers[1].child = "exits"

\* C5: a received error is never partially applied: ai_error holds the error
\* string, edit_field_values and edit_session_name are what they were; a received
\* success overwrites every field row with the result and leaves ai_error None.
C5_AllOrNothing ==
    ResultPending =>
        IF Head(chan).ok
        THEN /\ AfterCheck.ai_error = None
             /\ Len(AfterCheck.edit_field_values) = Len(app.edit_field_values)
             /\ \A k \in 1..Len(app.edit_field_values) :
                   AfterCheck.edit_field_values[k] = Head(chan).values[k]
             /\ AfterCheck.edit_session_name = app.edit_session_name
        ELSE /\ AfterCheck.ai_error = Some(Head(chan).err)
             /\ AfterCheck.edit_field_values = app.edit_field_values
             /\ AfterCheck.edit_session_name = app.edit_session_name

\* C5, its case: the timeout error is received while the field rows hold values.
C5_Witness ==
    /\ ResultPending
    /\ ~Head(chan).ok /\ Head(chan).err = ErrTimeout
    /\ Len(app.edit_field_values) >= 2
    /\ \E k \in 1..Len(app.edit_field_values) : app.edit_field_values[k] # EmptyString

\* a worker waits for a command that never exits
CommandHangs == \E i \in 1..Len(workers) : workers[i].child = "hangs"

\* C6: under fair scheduling of the worker and of the event loop, every run that
\* is started ends (ai_running leads to ~ai_running), and a run whose command
\* never exits ends with an error delivered through the channel.
C6_RunEnds ==
    /\ app.ai_running ~> ~app.ai_running
    /\ CommandHangs ~> (~app.ai_running /\ IsSome(app.ai_error))

\* C6, its case: a run has ended by the timeout error.
C6_Witness ==
    /\ ~app.ai_running
    /\ app.ai_error = Some(ErrTimeout)

----------------------------------------------------------------------------
(* The properties of the session list, the store and the tmux sessions,    *)
(* checked under Spec and SpecBoard.                                       *)

\* the world after refresh_sessions has run on the current state
AfterRefresh == refresh_sessions(World)

\* C7: whenever the event loop can call refresh_sessions, after it returns the
\* in-memory session list equals the store's Session records of the project:
\* ids, names, statuses and terminal handles, in id order.
C7_RefreshEqualsStore ==
    main.pc = "loop" =>
        AfterRefresh.app.sessions = list_sessions(AfterRefresh.db, ProjectId)

\* C8: whenever the event loop waits for the next event, that is after each
\* handled keystroke and the attach it led to, the in-memory sessions and fields
\* equal the persisted records.
C8_MemoryEqualsStore ==
    main.pc = "loop" =>
        /\ app.sessions = list_sessions(db, ProjectId)
        /\ app.fields = list_fields(db, ProjectId)

\* the sessions of the selected column
SelectedColumnCount ==
    Len(sessions_by_status(app, StatusAll[app.selected_column + 1]))

\* C9: in the Kanban view selected_column is a valid column and selected_row is
\* within [0, count) of the selected column's sessions, 0 when it is empty.
C9_SelectionInRange ==
    /\ app.selected_column \in 0..(Len(StatusAll) - 1)
    /\ IF SelectedColumnCount = 0 THEN app.selected_row = 0
       ELSE app.selected_row \in 0..(SelectedColumnCount - 1)

\* the tmux sessions orphan cleanup kills when it runs on the current state
KilledByCleanup == tmux.live \ cleanup_orphaned_tmux_sessions(World).tmux.live

\* the live tmux sessions with the project's prefix that no Session record holds
\* as its terminal handle
Orphans ==
    {n \in list_project_sessions(tmux.live, ProjectId) :
        \A r \in db.sessions : r.tmux_window # Some(n)}

\* C10: whenever the cleanup key can be pressed, orphan cleanup kills exactly the
\* live sessions with the project's prefix that are the stored handle of no
\* Session record.
C10_KillsExactlyOrphans ==
    (main.pc = "loop" /\ app.input_mode = "Normal" /\ app.view = "Kanban")
        => KilledByCleanup = Orphans

----------------------------------------------------------------------------
(* The properties of the terminal sessions, checked under Spec.            *)

\* the store's record of the Session with this id
StoredSession(session_id) == CHOOSE r \in db.sessions : r.id = session_id

\* the Session with this id is in the store and its stored handle names a live
\* tmux session
HandleLive(session_id) ==
    /\ \E r \in db.sessions : r.id = session_id
    /\ IsSome(StoredSession(session_id).tmux_window)
    /\ Unwrap(StoredSession(session_id).tmux_window) \in tmux.live

\* C11: when a delete is confirmed with 'y' for a Session whose stored handle
\* names a live tmux session, that tmux session is not live afterwards.
C11_DeleteKillsTerminal ==
    (/\ main.pc = "loop"
     /\ app.input_mode = "ConfirmDelete"
     /\ IsSome(app.deleting_session_id)
     /\ HandleLive(Unwrap(app.deleting_session_id)))
        => Unwrap(StoredSession(Unwrap(app.deleting_session_id)).tmux_window)
               \notin handle_confirm_delete_key(World, CharKey("y")).tmux.live

\* C12: Enter on a selected Session whose stored handle names a live tmux
\* session, with tmux available, attaches to that session, creates no tmux
\* session and leaves the store as it is.
C12_AttachSameSession ==
    (/\ main.pc = "loop"
     /\ app.input_mode = "Normal"
     /\ app.view = "Kanban"
     /\ IsSome(selected_session(app))
     /\ HandleLive(Unwrap(selected_session(app)).id))
        => \A env \in {e \in Envs : e.available} :
               LET w == handle_enter_key(World, env)
                   id == Unwrap(selected_session(app)).id
               IN  /\ w.ret = RetAttach(Unwrap(StoredSession(id).tmux_window))
                   /\ w.tmux.live = tmux.live
                   /\ w.db = db

\* C13: when tmux attach-session has returned and main runs
\* refresh_tmux_sessions, afterwards every handle in the store is in the active
\* set just computed, and so is every name of the waiting-for-input set.
C13_NoStaleHandle ==
    main.pc = "attached" =>
        LET w == refresh_tmux_sessions(World) IN
        /\ \A r \in w.db.sessions :
               IsSome(r.tmux_window)
                   => Unwrap(r.tmux_window) \in w.app.active_tmux_sessions
        /\ w.app.sessions_waiting_input \subseteq w.app.active_tmux_sessions

\* C18: the status message of orphan cleanup names the number of tmux
\* sessions it killed ("No orphaned sessions found" for none, singular for
\* one, plural above), and with two live sessions of the project of which the
\* store references one it reports one.
C18_ReportsKilled ==
    (main.pc = "loop" /\ app.input_mode = "Normal" /\ app.view = "Kanban")
        => LET w == cleanup_orphaned_tmux_sessions(World)
               k == Cardinality(KilledByCleanup)
               project_live == list_project_sessions(tmux.live, ProjectId)
           IN  /\ k = 0 => w.app.status_message = Some(<<"No orphaned sessions found">>)
               /\ k = 1 => w.app.status_message =
                               Some(<<"Cleaned up ", 1, " orphaned session", "">>)
               /\ k > 1 => w.app.status_message =
                               Some(<<"Cleaned up ", k, " orphaned session", "s">>)
               /\ (Cardinality(project_live) = 2 /\ Cardinality(Orphans) = 1)
                      => k = 1

----------------------------------------------------------------------------
(* The properties of the store, checked under SpecStore.                   *)

\* C14: every row of session_field_values references a row of sessions and a
\* row of fields.
C14_ValuesReferenceRows ==
    \A v \in db.values :
        /\ \E r \in db.sessions : r.id = v.session_id
        /\ \E f \in db.fields : f.id = v.field_id

\* the world after this key was handled
AfterKey(key) == handle_events(World, KeyEvent(key), QuietEnv)

\* a delete of a Session (kind "ConfirmDelete") or of a Field (kind
\* "ConfirmDeleteField") awaits its answer
Asking(kind) ==
    /\ main.pc = "loop"
    /\ app.input_mode = kind
    /\ IsSome(IF kind = "ConfirmDelete" THEN app.deleting_session_id
              ELSE app.deleting_field_id)

\* the pending record is gone from its table, the other table is as it was, the
\* mode is Normal and no id is pending
Deleted(kind, w) ==
    /\ IF kind = "ConfirmDelete"
       THEN /\ {r.id : r \in w.db.sessions}
                  = {r.id : r \in db.sessions} \ {Unwrap(app.deleting_session_id)}
            /\ w.db.fields = db.fields
       ELSE /\ w.db.fields = {f \in db.fields : f.id # Unwrap(app.deleting_field_id)}
            /\ w.db.sessions = db.sessions
    /\ w.app.input_mode = "Normal"
    /\ w.app.deleting_session_id = None
    /\ w.app.deleting_field_id = None

\* the mode is Normal, no id is pending and the store is as it was
Cancelled(w) ==
    /\ w.app.input_mode = "Normal"
    /\ w.app.deleting_session_id = None
    /\ w.app.deleting_field_id = None
    /\ w.db = db

\* the confirmation is still open on the same record and the store is as it was
StillAsking(w) ==
    /\ w.app.input_mode = app.input_mode
    /\ w.app.deleting_session_id = app.deleting_session_id
    /\ w.app.deleting_field_id = app.deleting_field_id
    /\ w.db = db

\* C15 (as stated): in either confirmation 'y' deletes the pending record and
\* every other key cancels: mode Normal, pending id cleared, nothing deleted.
C15_OtherKeysCancel ==
    \A kind \in {"ConfirmDelete", "ConfirmDeleteField"} :
        Asking(kind) =>
            \A key \in AllKeys :
                IF key = CharKey("y") THEN Deleted(kind, AfterKey(key))
                ELSE Cancelled(AfterKey(key))

\* C15 (amended): in either confirmation 'y' or 'Y' deletes the pending record
\* and returns to Normal with the pending id cleared; 'n', 'N' and Esc cancel:
\* mode Normal, pending id cleared, nothing deleted; every other key leaves the
\* confirmation open and the store as it is.
C15_ConfirmOrCancel ==
    \A kind \in {"ConfirmDelete", "ConfirmDeleteField"} :
        Asking(kind) =>
            \A key \in AllKeys :
                CASE key.code = "Char" /\ key.ch \in {"y", "Y"} ->
                        Deleted(kind, AfterKey(key))
                  [] key.code = "Esc" \/ (key.code = "Char" /\ key.ch \in {"n", "N"}) ->
                        Cancelled(AfterKey(key))
                  [] OTHER -> StillAsking(AfterKey(key))

\* a Field's delete awaits its answer after the Session was deleted: 'y'
\* deletes the Field, 'n' cancels, 'x' is ignored
C15_Witness ==
    /\ Asking("ConfirmDeleteField")
    /\ db.sessions = {}
    /\ AfterKey(CharKey("y")).db.fields # db.fields
    /\ AfterKey(CharKey("n")).app.input_mode = "Normal"
    /\ AfterKey(CharKey("x")).app.input_mode = "ConfirmDeleteField"

\* the ids of the project's Fields in the order of list_fields
FieldOrder(d) ==
    LET fields == list_fields(d, ProjectId) IN [i \in 1..Len(fields) |-> fields[i].id]

----------------------------------------------------------------------------
(* The property of the prompt detection, checked under SpecPane.           *)

\* C17: is_waiting_for_input is true of a session exactly when its capture
\* succeeds (the session is live) and a prompt pattern occurs in one of the
\* last five lines of the captured text; a pattern only in the sixth line from
\* the end or before does not count.
C17_LastFiveLines ==
    \A name \in tmux.live \cup {session_name(ProjectId, 1)} :
        is_waiting_for_input(tmux, name)
            <=> /\ name \in tmux.live
                /\ LET lines == tmux.panes[name] IN
                   \E i \in 1..Len(lines) :
                       /\ i > Len(lines) - 5
                       /\ \E j \in 1..Len(lines[i]) : lines[i][j] \in PromptPatterns

\* a refresh has marked the session waiting: its pane has six lines, the
\* first two ask (y/n), the last four show no pattern; were the second line
\* a shell prompt, the pattern in the first would not count
C17_Witness ==
    LET name == session_name(ProjectId, 1) IN
    /\ name \in tmux.live
    /\ Len(tmux.panes[name]) = 6
    /\ \A i \in 1..6 : Contains(tmux.panes[name][i], "(y/n)") <=> i <= 2
    /\ name \in app.sessions_waiting_input
    /\ is_waiting_for_input(tmux, name)
    /\ ~is_waiting_for_input([tmux EXCEPT !.panes[name][2] = <<"$ ">>], name)

----------------------------------------------------------------------------
(* The property of the NewSession overlay, checked under SpecBoard.        *)

\* C19: Enter in NewSession with a non-empty buffer adds exactly one Session
\* record, with the buffer as its name and status planned, keeps the records
\* there were, loads the list from the store (the new Session in it, Planned),
\* and returns to Normal with the buffer empty; with an empty buffer it leaves
\* the store as it is and returns to Normal.
C19_EnterCreatesOne ==
    (main.pc = "loop" /\ app.input_mode = "NewSession")
        => LET w == AfterKey(PlainKey("Enter"))
               old == {r.id : r \in db.sessions}
               new == {r \in w.db.sessions : r.id \notin old}
           IN  /\ w.app.input_mode = "Normal"
               /\ w.app.input_buffer = EmptyString
               /\ IF app.input_buffer = EmptyString
                  THEN w.db = db /\ w.app.sessions = app.sessions
                  ELSE /\ Cardinality(new) = 1
                       /\ \A r \in new : /\ r.name = app.input_buffer
                                         /\ r.status = "planned"
                                         /\ r.project_id = app.project.id
                       /\ \A o \in db.sessions :
                              \E r \in w.db.sessions :
                                  r.id = o.id /\ r.name = o.name /\ r.status = o.status
                       /\ Cardinality(w.db.sessions) = Cardinality(db.sessions) + 1
                       /\ Len(w.app.sessions) = Cardinality(w.db.sessions)
                       /\ \A r \in w.db.sessions :
                              \E i \in 1..Len(w.app.sessions) :
                                  /\ w.app.sessions[i].id = r.id
                                  /\ w.app.sessions[i].name = r.name
                                  /\ as_str(w.app.sessions[i].status) = r.status

\* a name is typed in NewSession while the store holds a Session that an
\* earlier Enter created and that was moved on since
C19_Witness ==
    /\ main.pc = "loop" /\ app.input_mode = "NewSession"
    /\ app.input_buffer # EmptyString
    /\ \E r \in db.sessions : r.status # "planned"
    /\ Cardinality(AfterKey(PlainKey("Enter")).db.sessions) = 2

----------------------------------------------------------------------------
(* The property of the Manual commit, checked under SpecCommit.            *)

\* the text of row i of the edit overlay: the row being typed is in the
\* input buffer, row 0 is the name, row i the value of the i-th Field
RowText(i) ==
    IF app.edit_row = i THEN app.input_buffer
    ELSE IF i = 0 THEN app.edit_session_name
    ELSE app.edit_field_values[i]

\* C20: Enter in EditSession/Manual stores every row, the one being typed
\* included: the Session's name becomes the text of the name row when that is
\* not empty and stays otherwise; for every Field i in the order of list_fields
\* the one stored value of (session, field i) becomes the text of row i, the
\* empty string included; the mode returns to Normal.
C20_CommitAllRows ==
    (/\ main.pc = "loop"
     /\ app.input_mode = "EditSession" /\ app.edit_mode = "Manual"
     /\ IsSome(app.editing_session_id))
        => LET w == AfterKey(PlainKey("Enter"))
               id == Unwrap(app.editing_session_id)
               fields == list_fields(db, ProjectId)
               Named(d) == {r.name : r \in {x \in d.sessions : x.id = id}}
               Stored(i) == {v \in w.db.values :
                                v.session_id = id /\ v.field_id = fields[i].id}
           IN  /\ Named(w.db) = IF RowText(0) # EmptyString THEN {RowText(0)}
                                ELSE Named(db)
               /\ Len(app.edit_field_values) = Len(fields)
               /\ \A i \in 1..Len(fields) :
                      /\ Cardinality(Stored(i)) = 1
                      /\ \A v \in Stored(i) : v.value = RowText(i)
               /\ w.app.input_mode = "Normal"

\* the second row of two is being typed and differs from what was loaded, the
\* Fields are listed against the order of their ids, and an earlier commit
\* stored an empty value
C20_Witness ==
    /\ main.pc = "loop"
    /\ app.input_mode = "EditSession" /\ app.edit_mode = "Manual"
    /\ app.edit_row = 2
    /\ app.input_buffer # app.edit_field_values[2]
    /\ FieldOrder(db) = <<2, 1>>
    /\ \E v \in db.values : v.value = EmptyString
    /\ AfterKey(PlainKey("Enter")).db # db

----------------------------------------------------------------------------
(* The properties of the edit overlay's frame, checked under SpecEdit.     *)

\* C21: a step that begins and ends in EditSession leaves the store as it
\* is, whatever key, paste or worker result it handled, and in every state
\* of EditSession with no run on, in Manual or in AI mode, Esc leaves the
\* store as it is and returns to Normal: the store after Esc is the store of
\* the moment the overlay was opened.
C21_EscDiscards ==
    [][app.input_mode = "EditSession"
           => /\ app'.input_mode = "EditSession" => db' = db
              /\ (main.pc = "loop" /\ ~app.ai_running)
                     => LET w == AfterKey(PlainKey("Esc"))
                        IN  /\ w.db = db
                            /\ w.app.input_mode = "Normal"
                            /\ w.app.editing_session_id = None]_vars

\* in Manual mode on a field row, after a worker's result replaced the rows:
\* no run is on, the rows differ from the stored values, Esc closes the overlay
C21_Witness ==
    /\ main.pc = "loop"
    /\ app.input_mode = "EditSession" /\ app.edit_mode = "Manual"
    /\ ~app.ai_running /\ chan = <<>> /\ workers = <<>>
    /\ \E i \in 1..Len(app.fields) :
          app.edit_field_values[i]
              # get_session_field_value(db, Unwrap(app.editing_session_id), app.fields[i].id)
    /\ AfterKey(PlainKey("Esc")).app.input_mode = "Normal"

----------------------------------------------------------------------------
(* The property of the move overlay, checked under SpecMove.               *)

\* a Session is being moved
Moving ==
    /\ main.pc = "loop"
    /\ app.input_mode = "MoveSession"
    /\ IsSome(app.moving_session_id)

\* after digit number k was handled in world w: the moved Session's stored
\* status is that of Status::all()[k-1] and its name is as it was, every other
\* record keeps its name and status, the Fields and the values are as they
\* were, the list was loaded from the store, no move is pending in Normal
MovedTo(w, k) ==
    LET id == Unwrap(app.moving_session_id) IN
    /\ {[id |-> r.id, name |-> r.name, status |-> r.status] : r \in w.db.sessions}
           = {[id |-> r.id, name |-> r.name,
               status |-> IF r.id = id
                          THEN <<"planned", "in_progress", "review", "done">>[k]
                          ELSE r.status] : r \in db.sessions}
    /\ w.db.fields = db.fields /\ w.db.values = db.values
    /\ {[id |-> x.id, name |-> x.name, status |-> as_str(x.status)] :
            x \in SeqToSet(w.app.sessions)}
           = {[id |-> r.id, name |-> r.name, status |-> r.status] : r \in w.db.sessions}
    /\ w.app.input_mode = "Normal"
    /\ w.app.moving_session_id = None

\* after Esc was handled: Normal, no move pending, the store as it was
MoveCancelled ==
    LET w == AfterKey(PlainKey("Esc")) IN
    /\ w.db = db
    /\ w.app.input_mode = "Normal"
    /\ w.app.moving_session_id = None

\* C22 (as stated): in MoveSession a digit d in 1..4 sets the stored status of
\* the moved Session to Status::all()[d-1], leaves its name, its terminal
\* handle and the field values unchanged, reloads the list and returns to
\* Normal; Esc returns to Normal without a store change.
C22_HandleKept ==
    Moving =>
        /\ \A k \in 1..4 :
               LET w == AfterKey(CharKey(<<"1", "2", "3", "4">>[k])) IN
               /\ MovedTo(w, k)
               /\ \A r \in w.db.sessions :
                      r.id = Unwrap(app.moving_session_id)
                          => r.tmux_window = StoredSession(r.id).tmux_window
        /\ MoveCancelled

\* C22 (amended): as stated, but the reload that follows the status update
\* reconciles the handles: a stored handle is unchanged when it names a live
\* tmux session and is cleared when it does not.
C22_MoveSetsStatus ==
    Moving =>
        /\ \A k \in 1..4 :
               LET w == AfterKey(CharKey(<<"1", "2", "3", "4">>[k])) IN
               /\ MovedTo(w, k)
               /\ \A r \in w.db.sessions :
                      r.tmux_window =
                          IF HandleLive(r.id) THEN StoredSession(r.id).tmux_window
                          ELSE None
        /\ MoveCancelled

\* a Session in Review with field values is being moved; its stored handle
\* names a tmux session that has ended
C22_Witness ==
    /\ Moving
    /\ StoredSession(Unwrap(app.moving_session_id)).status = "review"
    /\ IsSome(StoredSession(Unwrap(app.moving_session_id)).tmux_window)
    /\ ~HandleLive(Unwrap(app.moving_session_id))
    /\ db.values # {}

----------------------------------------------------------------------------
(* The properties of open-terminal, checked under SpecAttach.              *)

\* C23: an Enter that yields an attach outside tmux releases the terminal and
\* blocks in the attach without refreshing; inside tmux it keeps the terminal,
\* stays in the loop and refreshes the tmux sets at once.  While the attach
\* blocks the terminal is released and no step handles an event: the App and
\* the store change only by the step that ends the attach, which acquires the
\* terminal, refreshes the tmux sets and returns to the loop.
C23_ReleaseAroundAttach ==
    [][/\ (main.pc = "loop" /\ app.input_mode = "Normal" /\ app.view = "Kanban")
             => \A env \in Envs :
                    LET w1 == handle_events(World, KeyEvent(PlainKey("Enter")), env)
                        r == main_iteration(World, main, KeyEvent(PlainKey("Enter")), env)
                    IN  w1.ret[1] = "AttachTmux" =>
                            IF main.inside_tmux
                            THEN /\ r.m = main
                                 /\ r.w = refresh_tmux_sessions(w1)
                            ELSE /\ r.m.pc = "attached"
                                 /\ r.m.terminal = "restored"
                                 /\ r.m.attached = Some(w1.ret[2])
                                 /\ r.w = w1
       /\ main'.pc = "attached" => ~main.inside_tmux /\ main'.terminal = "restored"
       /\ main.pc = "loop" => main.terminal = "tui"
       /\ main.pc = "attached" =>
             \/ app' = app /\ db' = db /\ main' = main
             \/ /\ main'.pc = "loop" /\ main'.terminal = "tui"
                /\ app' = refresh_tmux_sessions(World).app
                /\ db' = refresh_tmux_sessions(World).db]_vars

\* outside tmux the attach blocks on the session's live tmux session, the
\* terminal released
C23_Witness ==
    /\ main.pc = "attached" /\ ~main.inside_tmux
    /\ main.terminal = "restored"
    /\ main.attached = Some(session_name(ProjectId, 1))
    /\ session_name(ProjectId, 1) \in tmux.live

\* Enter can be pressed on the board
OnBoard == main.pc = "loop" /\ app.input_mode = "Normal" /\ app.view = "Kanban"

\* C24: with tmux not installed, open-terminal returns no action and no error
\* and leaves the App, the store and the tmux server as they are; the
\* iteration of the loop that handled the Enter changes nothing but the
\* status message, which every key clears, and main stays in the loop.
C24_UnavailableNoOp ==
    OnBoard =>
        \A env \in {e \in Envs : ~e.available} :
            LET w == handle_enter_key(World, env)
                r == main_iteration(World, main, KeyEvent(PlainKey("Enter")), env)
            IN  /\ w.ret = <<"None">>
                /\ w.app = app /\ w.db = db /\ w.tmux = tmux
                /\ r.m = main
                /\ r.w.app = [app EXCEPT !.status_message = None]
                /\ r.w.db = db /\ r.w.tmux = tmux

\* the selected Session has no terminal yet and the cleanup's message is on
\* the board: with tmux installed Enter would create the terminal
C24_Witness ==
    /\ OnBoard
    /\ IsSome(selected_session(app))
    /\ IsSome(app.status_message)
    /\ \E env \in Envs : handle_enter_key(World, env).tmux # tmux

\* C25: when tmux new-session fails, open-terminal returns an error and
\* leaves the store (no handle is stored), the App (the name is not added to
\* active_tmux_sessions) and the tmux server as they are, and asks for no
\* attach; main leaves the loop with the error.
C25_CreateFails ==
    OnBoard =>
        \A env \in {e \in Envs : e.available /\ ~e.create_ok} :
            LET w == handle_enter_key(World, env)
                sel == selected_session(app)
                creates == /\ IsSome(sel)
                           /\ ~(/\ IsSome(Unwrap(sel).tmux_window)
                                /\ Unwrap(Unwrap(sel).tmux_window) \in tmux.live)
            IN  creates =>
                    /\ w.ret = <<"Err">>
                    /\ w.db = db /\ w.app = app /\ w.tmux = tmux
                    /\ main_iteration(World, main, KeyEvent(PlainKey("Enter")), env).m.pc
                           = "failed"

\* main has left the loop with the error of an open-terminal whose
\* new-session failed: the Session has no handle and no tmux session
C25_Witness ==
    /\ main.pc = "failed"
    /\ \A r \in db.sessions : r.tmux_window = None
    /\ list_project_sessions(tmux.live, ProjectId) = {}
    /\ list_project_sessions(app.active_tmux_sessions, ProjectId) = {}

----------------------------------------------------------------------------
(* The property of the field order, checked under SpecFields.              *)

\* C26: the Fields of the project have pairwise distinct display_order
\* values, and the Enter that creates a Field appends it to list_fields: the
\* Fields there were keep their order and the new one, with the typed name,
\* comes last.
C26_DistinctOrder ==
    /\ \A f, g \in db.fields :
           (f.project_id = g.project_id /\ f.display_order = g.display_order) => f = g
    /\ (main.pc = "loop" /\ app.input_mode = "NewFieldDesc")
           => LET before == list_fields(db, ProjectId)
                  after == list_fields(AfterKey(PlainKey("Enter")).db, ProjectId)
              IN  /\ Len(after) = Len(before) + 1
                  /\ SubSeq(after, 1, Len(before)) = before
                  /\ after[Len(after)].name = app.new_field_name
                  /\ \A f \in db.fields : f.id # after[Len(after)].id

\* a description is typed for a new Field while the store holds two Fields
\* that were exchanged, the one created second listed first
C26_Witness ==
    /\ main.pc = "loop" /\ app.input_mode = "NewFieldDesc"
    /\ Len(app.new_field_name) > 0
    /\ Len(FieldOrder(db)) = 2
    /\ FieldOrder(db)[1] > FieldOrder(db)[2]

----------------------------------------------------------------------------
(* The property of the field values, checked under SpecCommit.             *)

\* C27: the store holds at most one value row per (session, field) pair and a
\* pair without a row reads as the empty string; for every Session, Field and
\* text, after set_session_field_value the pair reads as that text, holds one
\* row, and every other pair reads as before.
C27_OneValuePerPair ==
    LET Rows(d, s, f) == {v \in d.values : v.session_id = s /\ v.field_id = f}
        sids == 1..(MaxSessionId + 1)
        fids == 1..(MaxFieldId + 1)
    IN  /\ \A s \in sids, f \in fids :
               /\ Cardinality(Rows(db, s, f)) <= 1
               /\ Rows(db, s, f) = {} => get_session_field_value(db, s, f) = EmptyString
        /\ \A r \in db.sessions, g \in db.fields, text \in Texts :
               LET d == set_session_field_value(db, r.id, g.id, text) IN
               /\ get_session_field_value(d, r.id, g.id) = text
               /\ Cardinality(Rows(d, r.id, g.id)) = 1
               /\ \A s \in sids, f \in fids :
                      <<s, f>> # <<r.id, g.id>>
                          => get_session_field_value(d, s, f)
                                 = get_session_field_value(db, s, f)

\* after a commit: of the Session's two Fields one has the stored value "a",
\* one the stored empty string
C27_Witness ==
    /\ main.pc = "loop" /\ app.input_mode = "Normal"
    /\ Cardinality(db.fields) = 2
    /\ {v.value : v \in db.values} = {EmptyString, <<"a">>}
    /\ Cardinality(db.values) = 2

----------------------------------------------------------------------------
(* Branch names: sanitize_branch_name is called on a session name of up to *)
(* MaxName chars and returns.                                              *)

\* the chars of a session name: letters of both cases, a digit, a blank, a
\* dash, a punctuation mark, and a capital whose lower case is two chars
NameChars == {"A", "a", "1", " ", "-", "!", "U+0130"}

InitBranch ==
    /\ db = EmptyDb
    /\ tmux = Server({ForeignName, PlainName})
    /\ app = AppNew(EmptyDb, Server({ForeignName, PlainName}))
    /\ workers = <<>>
    /\ chan = <<>>
    /\ main = [pc |-> "loop", attached |-> None, terminal |-> "tui",
               inside_tmux |-> FALSE]
    /\ \E n \in 0..MaxName : \E name \in [1..n -> NameChars] :
           git = [session_name |-> name, branch |-> None]

\* sanitize_branch_name(&session_name) returns
SanitizeBranchName ==
    /\ git.branch = None
    /\ git' = [git EXCEPT !.branch = <<sanitize_branch_name(git.session_name)>>]
    /\ UNCHANGED <<app, db, tmux, workers, chan, main>>

NextBranch == SanitizeBranchName

SpecBranch == InitBranch /\ [][NextBranch]_vars

RECURSIVE AlnumRuns(_, _)
\* the maximal runs of alphanumeric chars of str, in order (run: the run that
\* is being read)
AlnumRuns(str, run) ==
    IF str = <<>> THEN (IF run = <<>> THEN <<>> ELSE <<run>>)
    ELSE IF is_alphanumeric(Head(str)) THEN AlnumRuns(Tail(str), Append(run, Head(str)))
    ELSE (IF run = <<>> THEN <<>> ELSE <<run>>) \o AlnumRuns(Tail(str), <<>>)

\* C28: sanitize_branch_name returns "wb/" followed by the lower-cased input
\* with every maximal run of non-alphanumeric chars replaced by one '-' and
\* without a '-' at either end, that is, by the alphanumeric runs of the
\* lower-cased input joined by '-'; when there is no such run it returns
\* "wb/session".
C28_BranchName ==
    git.branch # None =>
        LET runs == AlnumRuns(to_lowercase(git.session_name), <<>>)
            branch == git.branch[1]
            rest == SubSeq(branch, 4, Len(branch))
        IN  /\ SubSeq(branch, 1, 3) = <<"w", "b", "/">>
            /\ rest # <<>> /\ rest[1] # "-" /\ rest[Len(rest)] # "-"
            /\ IF runs = <<>> THEN rest = <<"s", "e", "s", "s", "i", "o", "n">>
               ELSE rest = Join(runs, "-")

\* the call on "A-!1" has returned "wb/a-1": an upper-case letter and a run
\* of two chars that are not alphanumeric
C28_Witness ==
    /\ git.session_name = <<"A", "-", "!", "1">>
    /\ git.branch = <<<<"w", "b", "/", "a", "-", "1">>>>

----------------------------------------------------------------------------
(* The walk over the rows of the edit overlay, checked under SpecCommit.   *)

RECURSIVE PressAll(_, _)
\* the world after the keys were handled one after the other
PressAll(w, keys) ==
    IF keys = <<>> THEN w
    ELSE PressAll(handle_events(w, KeyEvent(Head(keys)), QuietEnv), Tail(keys))

\* C29: in EditSession/Manual with n Fields edit_row is in 0..n; Tab and Down
\* go one row down and from row n to row 0, BackTab and Up (without the
\* modifier of the toggle) one row up and from row 0 to row n; the move stores
\* the active buffer in the row left and loads the stored text of the row
\* entered, so every row keeps its text; after n + 1 Tabs the cursor is on the
\* row it started from and every row has the text it had.
C29_WalkWraps ==
    (main.pc = "loop" /\ app.input_mode = "EditSession" /\ app.edit_mode = "Manual") =>
        LET n == Len(app.fields)
            Stored(a, i) == IF i = 0 THEN a.edit_session_name ELSE a.edit_field_values[i]
            Text(a, i) == IF a.edit_row = i THEN a.input_buffer ELSE Stored(a, i)
            Moved(a, row) ==
                /\ a.input_mode = "EditSession" /\ a.edit_mode = "Manual"
                /\ a.edit_row = row
                /\ Stored(a, app.edit_row) = app.input_buffer
                /\ a.input_buffer = (IF row = app.edit_row THEN app.input_buffer
                                     ELSE Stored(app, row))
                /\ \A i \in 0..n : i # app.edit_row => Stored(a, i) = Stored(app, i)
            round == PressAll(World, [k \in 1..(n + 1) |-> PlainKey("Tab")]).app
        IN  /\ app.edit_row \in 0..n
            /\ \A code \in {"Tab", "Down"} :
                   Moved(AfterKey(PlainKey(code)).app,
                         IF app.edit_row = n THEN 0 ELSE app.edit_row + 1)
            /\ \A code \in {"BackTab", "Up"} :
                   Moved(AfterKey(PlainKey(code)).app,
                         IF app.edit_row = 0 THEN n ELSE app.edit_row - 1)
            /\ round.edit_row = app.edit_row
            /\ round.input_mode = "EditSession" /\ round.edit_mode = "Manual"
            /\ \A i \in 0..n : Text(round, i) = Text(app, i)

\* two Fields, the cursor on the last row, whose text was changed by typing
\* or erasing
C29_Witness ==
    /\ main.pc = "loop" /\ app.input_mode = "EditSession" /\ app.edit_mode = "Manual"
    /\ Len(app.fields) = 2 /\ app.edit_row = 2
    /\ app.input_buffer # app.edit_field_values[2]

----------------------------------------------------------------------------
(* The rows scenario: the stores of the edit scenario; the session is      *)
(* edited in Manual mode, the overlay is toggled between Manual and AI,    *)
(* the rows are walked in both modes; no AI run is started and nothing is  *)
(* committed.                                                              *)

\* close, walk, erase, toggle, type
RowKeys ==
    {PlainKey(c) : c \in {"Esc", "Tab", "Down", "BackTab", "Up", "Backspace"}}
    \cup {Key("BackTab", "", FALSE, TRUE)}
    \cup {CharKey(c) : c \in TextChars}

NextRows ==
    \/ KeyNormalKanban({CharKey("e")})
    \/ KeyEditManual(RowKeys)
    \/ KeyEditAI(RowKeys)

SpecRows == InitEdit /\ [][NextRows]_vars

\* C30: the toggle pressed in Manual mode stores the active buffer in the
\* current row and changes no other row; pressed in AI mode it loads the
\* active buffer from the row the cursor is on; after the toggle, any
\* navigation keys (up to as many as there are rows) and the toggle
\* again, the overlay is in Manual mode and every row has the text it had.
C30_ToggleKeepsText ==
    (main.pc = "loop" /\ app.input_mode = "EditSession" /\ ~app.ai_running) =>
        LET n == Len(app.fields)
            Toggle == Key("BackTab", "", FALSE, TRUE)
            Stored(a, i) == IF i = 0 THEN a.edit_session_name ELSE a.edit_field_values[i]
            Text(a, i) == IF a.edit_row = i THEN a.input_buffer ELSE Stored(a, i)
            Walks == UNION {[1..k -> {PlainKey(c) : c \in {"Tab", "Down", "BackTab", "Up"}}]
                               : k \in 0..(n + 1)}
            toggled == AfterKey(Toggle).app
        IN  /\ toggled.input_mode = "EditSession"
            /\ toggled.edit_row = app.edit_row
            /\ app.edit_mode = "Manual" =>
                   /\ toggled.edit_mode = "AI"
                   /\ \A i \in 0..n : Stored(toggled, i) = Text(app, i)
                   /\ \A walk \in Walks :
                          LET walked == PressAll(AfterKey(Toggle), walk).app
                              back == PressAll(AfterKey(Toggle), Append(walk, Toggle)).app
                          IN  /\ walked.edit_mode = "AI"
                              /\ back.input_mode = "EditSession" /\ back.edit_mode = "Manual"
                              /\ back.edit_row = walked.edit_row
                              /\ back.input_buffer = Stored(walked, walked.edit_row)
                              /\ \A i \in 0..n : Text(back, i) = Text(app, i)
            /\ app.edit_mode = "AI" =>
                   /\ toggled.edit_mode = "Manual"
                   /\ toggled.input_buffer = Stored(app, app.edit_row)
                   /\ \A i \in 0..n : Stored(toggled, i) = Stored(app, i)

\* AI mode, entered from Manual mode by the toggle with the typed text of the
\* last row not yet stored, and the cursor walked to the name row: the last
\* row's stored text is not the one in the store, and the active buffer still
\* holds it
C30_Witness ==
    /\ main.pc = "loop" /\ app.input_mode = "EditSession" /\ app.edit_mode = "AI"
    /\ Len(app.fields) = 2 /\ app.edit_row = 0
    /\ app.edit_session_name # EmptyString
    /\ app.edit_field_values[2] = EmptyString
    /\ app.input_buffer = EmptyString
    /\ \E v \in db.values : v.value # EmptyString

----------------------------------------------------------------------------
(* The keys of the AI mode, checked under SpecEdit.                        *)

\* C31 as stated: in AI mode with no run on, Enter with a non-empty prompt
\* starts the worker and sets ai_running.
C31_EnterStartsRun ==
    (/\ main.pc = "loop" /\ app.input_mode = "EditSession" /\ app.edit_mode = "AI"
     /\ ~app.ai_running /\ Len(app.ai_input) > 0)
        => LET w == AfterKey(PlainKey("Enter"))
           IN  w.app.ai_running /\ Len(w.workers) = Len(workers) + 1

\* C31: in AI mode with no run on, the keys of handle_ai_edit_key leave the
\* name row, the field rows and the store as they are: Tab, Down, BackTab and Up
\* change the cursor only, a char and Backspace the prompt only; Enter with a
\* non-empty prompt and at least one Field starts one worker, sets ai_running
\* and holds a receiver; Enter with an empty prompt or with no Field changes
\* nothing.
C31_AiKeysKeepRows ==
    (/\ main.pc = "loop" /\ app.input_mode = "EditSession" /\ app.edit_mode = "AI"
     /\ ~app.ai_running)
        => LET n == Len(app.fields)
               quiet == [app EXCEPT !.status_message = None]
               Same(w) == w.db = db /\ w.workers = workers /\ w.chan = chan
                          /\ w.tmux = tmux
           IN  /\ \A code \in {"Tab", "Down"} :
                      LET w == AfterKey(PlainKey(code))
                      IN  /\ Same(w)
                          /\ w.app = [quiet EXCEPT !.edit_row =
                                         IF app.edit_row = n THEN 0 ELSE app.edit_row + 1]
               /\ \A code \in {"BackTab", "Up"} :
                      LET w == AfterKey(PlainKey(code))
                      IN  /\ Same(w)
                          /\ w.app = [quiet EXCEPT !.edit_row =
                                         IF app.edit_row = 0 THEN n ELSE app.edit_row - 1]
               /\ \A c \in TextChars :
                      LET w == AfterKey(CharKey(c))
                      IN  Same(w) /\ w.app = [quiet EXCEPT !.ai_input = Append(@, c)]
               /\ LET w == AfterKey(PlainKey("Backspace"))
                  IN  Same(w) /\ w.app = [quiet EXCEPT !.ai_input = Pop(@)]
               /\ LET w == AfterKey(PlainKey("Other"))
                  IN  Same(w) /\ w.app = quiet
               /\ LET w == AfterKey(PlainKey("Enter"))
                  IN  IF Len(app.ai_input) > 0 /\ n > 0
                      THEN /\ w.app = [quiet EXCEPT !.ai_running = TRUE,
                                                    !.ai_result_rx = w.app.ai_result_rx,
                                                    !.ai_error = None]
                           /\ IsSome(w.app.ai_result_rx)
                           /\ Len(w.workers) = Len(workers) + 1
                           /\ w.db = db /\ w.chan = chan /\ w.tmux = tmux
                      ELSE Same(w) /\ w.app = quiet

\* AI mode over two Fields, a prompt typed, the cursor on a field row, an
\* error of an earlier run shown: Enter starts a run
C31_Witness ==
    /\ main.pc = "loop" /\ app.input_mode = "EditSession" /\ app.edit_mode = "AI"
    /\ ~app.ai_running /\ Len(app.fields) = 2 /\ app.edit_row = 1
    /\ Len(app.ai_input) > 0 /\ IsSome(app.ai_error)
    /\ AfterKey(PlainKey("Enter")).app.ai_running

----------------------------------------------------------------------------
(* The modes scenario: the stores of the edit scenario; every input mode   *)
(* is entered, typed and pasted into and left by Esc or its cancel key,    *)
(* the edit overlay as in the rows scenario; sessions are moved and        *)
(* deleted, fields are deleted.  The commits that write texts to the store *)
(* are applied to every state by the property.                             *)

NextModes ==
    \/ \E key \in
           (CASE app.input_mode = "Normal" /\ app.view = "Kanban" ->
                     {CharKey(c) : c \in {"n", "e", "m", "d", "s"}}
              [] app.input_mode = "Normal" /\ app.view = "Settings" ->
                     {CharKey(c) : c \in {"n", "e", "d", "q"}}
              [] app.input_mode = "NewSession" -> TextKeys \ {PlainKey("Enter")}
              [] app.input_mode = "MoveSession" -> MoveKeys
              [] app.input_mode \in {"ConfirmDelete", "ConfirmDeleteField"} -> ConfirmKeys
              [] app.input_mode = "EditSession" -> RowKeys
              [] app.input_mode \in {"NewFieldName", "EditFieldName"} ->
                     FieldKeys
              [] OTHER -> FieldKeys \ {PlainKey("Enter")}) :
           Iterate(KeyEvent(key), QuietEnv)
    \/ Paste(Pastes)

SpecModes == InitEdit /\ [][NextModes]_vars

\* C32: in Normal mode the input buffer, the AI prompt, the edit name, the
\* edit field values and the new-field name and description are empty and the
\* editing, moving and deleting session ids and field ids are unset, in the
\* state and after every key and paste handled in it that ends in Normal mode
\* (the commits included); in every other mode, with no run on, Esc leads to
\* Normal.
C32_NormalIsClean ==
    LET Clean(a) ==
            a.input_mode = "Normal" =>
                /\ a.input_buffer = EmptyString /\ a.ai_input = EmptyString
                /\ a.edit_session_name = EmptyString /\ a.edit_field_values = <<>>
                /\ a.new_field_name = EmptyString /\ a.new_field_desc = EmptyString
                /\ a.editing_session_id = None /\ a.moving_session_id = None
                /\ a.deleting_session_id = None
                /\ a.editing_field_id = None /\ a.deleting_field_id = None
    IN  /\ Clean(app)
        /\ main.pc = "loop" =>
              /\ \A key \in AllKeys : Clean(AfterKey(key).app)
              /\ \A text \in Pastes :
                    Clean(handle_events(World, PasteEvent(text), QuietEnv).app)
              /\ (app.input_mode # "Normal" /\ ~app.ai_running) =>
                    AfterKey(PlainKey("Esc")).app.input_mode = "Normal"

\* the description of a Field is being edited, name and description typed:
\* Esc and Enter both end in Normal mode
C32_Witness ==
    /\ main.pc = "loop" /\ app.input_mode = "EditFieldDesc"
    /\ app.editing_field_id # None
    /\ app.new_field_name # EmptyString /\ app.new_field_desc # EmptyString
    /\ AfterKey(PlainKey("Esc")).app.input_mode = "Normal"
    /\ AfterKey(PlainKey("Enter")).app.input_mode = "Normal"

----------------------------------------------------------------------------
(* The status message, checked under SpecAttach.                           *)

\* C33: after the key 'x' handled on the board a status message of the
\* cleanup is present; after any other key event, and after 'x' where it is
\* not the maintenance key, no status message is present, whatever the state
\* before: the message of a cleanup does not outlive the next key event.
C33_MessageOneShot ==
    main.pc = "loop" =>
        \A key \in AllKeys : \A env \in KeyEnvs(key) :
            LET w == handle_events(World, KeyEvent(key), env)
                maintenance == /\ IsChar(key, "x") /\ ~app.ai_running
                               /\ app.input_mode = "Normal" /\ app.view = "Kanban"
            IN  IF maintenance
                THEN \E killed \in 0..(MaxLive + 1) :
                        w.app.status_message = Some(CleanupMessage(killed))
                ELSE w.app.status_message = None

\* the message of a cleanup that killed one tmux session is shown, a Session
\* is selected: every key but 'x' clears it
C33_Witness ==
    /\ main.pc = "loop" /\ app.input_mode = "Normal"
    /\ app.status_message = Some(CleanupMessage(1))
    /\ Len(app.sessions) > 0
    /\ AfterKey(CharKey("e")).app.status_message = None
    /\ AfterKey(CharKey("e")).app.input_mode = "EditSession"

----------------------------------------------------------------------------
(* The selection of the Settings view, checked under SpecFields.           *)

\* C34: in the Settings view the selection index is below the number of
\* Fields (0 when there is none); after 'K' and after 'J' it is in range and
\* points at the Field, by id, it pointed at before; 'K' at the first position
\* and 'J' at the last change neither the store nor the list nor the
\* selection, elsewhere they move the Field by one position; after 'y' on a
\* field deletion the index is below the number of Fields left, 0 when none
\* is left.
C34_SelectionFollows ==
    LET InRange(a) == IF Len(a.fields) = 0 THEN a.selected_field = 0
                      ELSE a.selected_field \in 0..(Len(a.fields) - 1)
        n == Len(app.fields)
        sel == app.selected_field
    IN  /\ app.view = "Settings" => InRange(app)
        /\ (main.pc = "loop" /\ app.input_mode = "Normal" /\ app.view = "Settings"
            /\ n > 0) =>
              \A c \in {"K", "J"} :
                  LET w == AfterKey(CharKey(c))
                      edge == IF c = "K" THEN sel = 0 ELSE sel = n - 1
                  IN  /\ InRange(w.app)
                      /\ Len(w.app.fields) = n
                      /\ w.app.fields[w.app.selected_field + 1].id = app.fields[sel + 1].id
                      /\ w.app.fields = list_fields(w.db, ProjectId)
                      /\ IF edge
                         THEN /\ w.db = db /\ w.app.fields = app.fields
                              /\ w.app.selected_field = sel
                         ELSE w.app.selected_field = (IF c = "K" THEN sel - 1 ELSE sel + 1)
        /\ (main.pc = "loop" /\ app.input_mode = "ConfirmDeleteField") =>
              LET w == AfterKey(CharKey("y"))
              IN  /\ Len(w.app.fields) = n - 1
                  /\ InRange(w.app)

\* two Fields, the one created first listed and selected second: 'K' moves it
\* to the first position
C34_Witness ==
    /\ main.pc = "loop" /\ app.input_mode = "Normal" /\ app.view = "Settings"
    /\ Len(app.fields) = 2 /\ app.selected_field = 1
    /\ app.fields[2].id < app.fields[1].id
    /\ AfterKey(CharKey("K")).app.selected_field = 0
    /\ AfterKey(CharKey("K")).app.fields[1].id = app.fields[2].id

----------------------------------------------------------------------------
(* The runs scenario: a store with two sessions and one field; either      *)
(* session is selected and edited, AI runs are started and end.            *)

NextRuns ==
    \/ KeyNormalKanban({CharKey("e"), CharKey("j"), CharKey("k")})
    \/ KeyEditManual(WalkKeys)
    \/ KeyEditAI(PromptKeys)
    \/ PastePrompt(Pastes)
    \/ PollTimeout
    \/ WorkerSpawn
    \/ WorkerWait

SpecRuns ==
    /\ InitWith(create_session(StoreWith(1), ProjectId, <<"a">>),
                Server({ForeignName, PlainName}), FALSE)
    /\ [][NextRuns]_vars

\* C35: while ai_running is true the mode is EditSession in its AI mode, an
\* editing session id is set and a receiver is held; while it is false no
\* receiver is held and no result waits; check_ai_result, when it receives a
\* result, leaves the mode, the editing session id and the name row as they
\* are and writes the field rows of that edit, whose number it keeps.
C35_RunInEditSession ==
    /\ app.ai_running =>
          /\ app.input_mode = "EditSession" /\ app.edit_mode = "AI"
          /\ app.editing_session_id # None /\ app.ai_result_rx # None
    /\ ~app.ai_running => (app.ai_result_rx = None /\ chan = <<>>)
    /\ ResultPending =>
          /\ app.ai_running
          /\ AfterCheck.input_mode = "EditSession"
          /\ AfterCheck.editing_session_id = app.editing_session_id
          /\ AfterCheck.edit_session_name = app.edit_session_name
          /\ Len(AfterCheck.edit_field_values) = Len(app.edit_field_values)
          /\ check_ai_result(World).db = db

\* a run started from the edit of the second session is on and its result
\* waits in the channel
C35_Witness ==
    /\ app.ai_running /\ ResultPending
    /\ app.editing_session_id = Some(2)
    /\ AfterCheck.editing_session_id = Some(2)
    /\ AfterCheck.edit_field_values # app.edit_field_values

----------------------------------------------------------------------------
(* The rows of the edit overlay, checked under SpecEdit.                   *)

\* C36: in EditSession the list of Fields is the project's list in the store,
\* edit_field_values has one entry per Field and edit_row is at most the number
\* of Fields; 'e' opens the overlay with entry i the stored value of the i-th
\* Field of the list (empty when there is none), and a result that
\* check_ai_result merges leaves the number of entries as it is.
C36_OneRowPerField ==
    /\ app.input_mode = "EditSession" =>
          /\ app.fields = list_fields(db, ProjectId)
          /\ Len(app.edit_field_values) = Len(app.fields)
          /\ app.edit_row \in 0..Len(app.fields)
    /\ (app.input_mode = "EditSession" /\ ResultPending) =>
          /\ Len(AfterCheck.edit_field_values) = Len(app.fields)
          /\ AfterCheck.edit_row = 0
    /\ (main.pc = "loop" /\ app.input_mode = "Normal" /\ app.view = "Kanban") =>
          LET a == AfterKey(CharKey("e")).app
          IN  a.input_mode = "EditSession" =>
                 /\ Len(a.edit_field_values) = Len(a.fields)
                 /\ \A i \in 1..Len(a.fields) :
                        LET rows == {v \in db.values :
                                        /\ v.session_id = Unwrap(a.editing_session_id)
                                        /\ v.field_id = a.fields[i].id}
                        IN  IF rows = {} THEN a.edit_field_values[i] = EmptyString
                            ELSE \E v \in rows : a.edit_field_values[i] = v.value

\* the overlay over two Fields after a result was merged that filled the
\* first row and emptied the second, the cursor on the last row
C36_Witness ==
    /\ app.input_mode = "EditSession" /\ app.edit_mode = "Manual"
    /\ Len(app.fields) = 2 /\ app.edit_row = 2
    /\ app.edit_field_values = <<<<"b">>, EmptyString>>

----------------------------------------------------------------------------
(* The handle clear of reconciliation, checked under Spec.                 *)

\* the Sessions whose handle in the store names a live tmux session and is not
\* their handle in the store of the world w any more
LiveHandleLost(w) ==
    {r \in db.sessions :
        /\ IsSome(r.tmux_window)
        /\ Unwrap(r.tmux_window) \in tmux.live
        /\ Unwrap(r.tmux_window) \in w.tmux.live
        /\ \E q \in w.db.sessions : q.id = r.id /\ q.tmux_window = None}

\* C37: reconciliation never clears the stored handle of a Session whose stored
\* handle names a live tmux session: neither when main runs
\* refresh_tmux_sessions after an attach, nor in the refresh key, nor in orphan
\* cleanup.
C37_ClearsOnlyDead ==
    /\ main.pc = "attached" => LiveHandleLost(refresh_tmux_sessions(World)) = {}
    /\ (main.pc = "loop" /\ app.input_mode = "Normal" /\ app.view = "Kanban") =>
          /\ LiveHandleLost(AfterKey(CharKey("r"))) = {}
          /\ LiveHandleLost(AfterKey(CharKey("x"))) = {}

----------------------------------------------------------------------------
(* The names of the terminal sessions.  The handles scenario: a store with *)
(* two sessions, either of which is selected; terminals are opened, the    *)
(* board is refreshed and cleaned up, tmux sessions end.                   *)

NextHandles ==
    \/ KeyNormalKanban({PlainKey("Enter")} \cup {CharKey(c) : c \in {"j", "k", "r", "x"}})
    \/ Detach
    \/ TmuxSessionEnds

SpecHandles ==
    /\ InitWith(create_session(create_session(EmptyDb, ProjectId, <<"a">>),
                               ProjectId, <<"b">>),
                Server({ForeignName, PlainName}), FALSE)
    /\ [][NextHandles]_vars

\* C38: no two Session records of the store hold the same terminal handle; the
\* name open-terminal persists for a tmux session it created was not live before
\* the key and is live after it; when the base name of the selected Session is
\* taken and the Session has no live handle, the name created and persisted is
\* a name that begins with the base name and is not the base name.
C38_HandlesDistinct ==
    /\ \A r, q \in db.sessions :
          (IsSome(r.tmux_window) /\ r.tmux_window = q.tmux_window) => r = q
    /\ (main.pc = "loop" /\ app.input_mode = "Normal" /\ app.view = "Kanban") =>
          \A env \in Envs :
              LET w1 == handle_events(World, KeyEvent(PlainKey("Enter")), env)
                  sel == selected_session(app)
              IN  /\ \A r \in w1.db.sessions \ db.sessions :
                         /\ IsSome(r.tmux_window)
                         /\ Unwrap(r.tmux_window) \notin tmux.live
                         /\ Unwrap(r.tmux_window) \in w1.tmux.live
                         /\ \A q \in w1.db.sessions : q.tmux_window = r.tmux_window => q = r
                  /\ IsSome(sel) =>
                        LET session == Unwrap(sel)
                            base_name == session_name(ProjectId, session.id)
                        IN  (/\ env.available /\ env.create_ok
                             /\ ~(IsSome(session.tmux_window)
                                    /\ Unwrap(session.tmux_window) \in tmux.live)
                             /\ base_name \in tmux.live
                             /\ \A n \in tmux.live :
                                    StartsWith(n, base_name) => n = base_name)
                            => \E r \in w1.db.sessions :
                                   /\ r.id = session.id
                                   /\ IsSome(r.tmux_window)
                                   /\ r.tmux_window # Some(base_name)
                                   /\ StartsWith(Unwrap(r.tmux_window), base_name)
                                   /\ Unwrap(r.tmux_window) \in w1.tmux.live \ tmux.live

\* both Sessions hold a live handle, the first one a suffixed name created on a
\* collision with its base name
C38_Witness ==
    /\ \A r \in db.sessions : IsSome(r.tmux_window) /\ Unwrap(r.tmux_window) \in tmux.live
    /\ \E r \in db.sessions :
          /\ r.id = 1
          /\ r.tmux_window = Some(suffixed_name(session_name(ProjectId, 1), 7))
    /\ Cardinality(db.sessions) = 2

----------------------------------------------------------------------------
(* The error of an AI run, checked under SpecEdit.                         *)

\* C39: whenever 'e' enters EditSession from Normal, ai_error is unset in the
\* overlay it opens.
C39_ErrorEndsWithEdit ==
    (main.pc = "loop" /\ app.input_mode = "Normal" /\ app.view = "Kanban") =>
        LET a == AfterKey(CharKey("e")).app
        IN  a.input_mode = "EditSession" => a.ai_error = None

----------------------------------------------------------------------------
(* The names in the store.  The names scenario: from the empty store,      *)
(* Sessions are created and renamed and Fields are created and edited,     *)
(* with keys and pastes; texts are typed and pasted into the names, the    *)
(* descriptions and values stay empty.                                     *)

\* most Sessions and most Fields of the names scenario
MaxNamed == 2

NextNames ==
    \/ \E key \in
           (CASE app.input_mode = "Normal" /\ app.view = "Kanban" ->
                     {CharKey(c) : c \in {"e", "s"}}
                     \cup (IF Cardinality(db.sessions) < MaxNamed
                           THEN {CharKey("n")} ELSE {})
              [] app.input_mode = "Normal" /\ app.view = "Settings" ->
                     {CharKey(c) : c \in {"e", "q"}}
                     \cup (IF Cardinality(db.fields) < MaxNamed
                           THEN {CharKey("n")} ELSE {})
              [] app.input_mode = "EditSession" /\ app.edit_row # 0 ->
                     {PlainKey(c) : c \in {"Enter", "Esc", "Tab"}}
              [] app.input_mode \in {"NewFieldDesc", "EditFieldDesc"} ->
                     {PlainKey("Enter"), PlainKey("Esc")}
              [] OTHER -> FieldKeys \cup {PlainKey("Tab")}) :
           Iterate(KeyEvent(key), QuietEnv)
    \/ /\ \/ app.input_mode \in {"NewSession", "NewFieldName", "EditFieldName"}
          \/ app.input_mode = "EditSession" /\ app.edit_row = 0
       /\ Paste(Pastes)

SpecNames == Init /\ [][NextNames]_vars

\* the store d holds neither a Session nor a Field with an empty name
AllNamed(d) ==
    /\ \A r \in d.sessions : r.name # EmptyString
    /\ \A f \in d.fields : f.name # EmptyString

\* C40: no Session record and no Field record of the store has an empty name,
\* and none has after any key or paste the event loop handles next.
C40_NamesNonEmpty ==
    /\ AllNamed(db)
    /\ main.pc = "loop" =>
          /\ \A key \in AllKeys : AllNamed(AfterKey(key).db)
          /\ \A text \in Pastes :
                 AllNamed(handle_events(World, PasteEvent(text), QuietEnv).db)

\* the overlay of a Session named "a" on a Field row, the name row left erased:
\* Enter commits and the Session keeps its name
C40_Witness ==
    /\ app.input_mode = "EditSession" /\ app.edit_mode = "Manual"
    /\ app.edit_row = Len(app.fields) /\ app.edit_row > 0
    /\ app.edit_session_name = EmptyString
    /\ \A f \in db.fields : f.name = <<"a">>
    /\ LET w == AfterKey(PlainKey("Enter"))
       IN  /\ w.app.input_mode = "Normal"
           /\ w.db.values # db.values
           /\ \A r \in w.db.sessions : r.name = <<"a">>

====
